---- MODULE Spec2Model ----
(***************************************************************************)
(* Model of the caddy headless proxy handler (package headlessproxy):      *)
(* the browser pool (getBrowser / returnBrowser / Cleanup /                *)
(* checkBrowsersHealth), the response cache (getCacheKey /                 *)
(* getCachedResponse / setCachedResponse) and the request pipeline         *)
(* (ServeHTTP).                                                            *)
(*                                                                         *)
(* Strings are TLA+ strings and are concatenated as the code concatenates  *)
(* them.  SHA-256 followed by hex encoding is modelled as an injective     *)
(* tagging of the hashed bytes (collision freedom is assumed).             *)
(***************************************************************************)
EXTENDS Integers, Sequences, FiniteSets, TLC

----------------------------------------------------------------------------
(* Bounds of the model *)

\* the ServeHTTP goroutines: two requests are served, concurrently or in sequence
Reqs == {1, 2}

\* h.MaxBrowsers (configuration, > 0 after Provision)
MaxBrowsers == 1

\* h.CacheTTL in clock ticks (configuration)
CacheTTL == 1

\* the clock stops once an entry stored at time <= 1 has expired
MaxTime == CacheTTL + 1

\* number of browser processes the launcher can start in one behaviour
MaxCreated == Cardinality(Reqs) + 1

\* "more than 1000 entries" threshold of the sweep in setCachedResponse
HighWaterMark == 1000

BrowserIds == 1 .. MaxCreated

\* browser 0 stands for the nil *rod.Browser
NilBrowser == 0

----------------------------------------------------------------------------
(* Requests *)

\* h.ForwardHeaders (configuration): the headers written into the cache key
ForwardHeaders == <<"Accept-Language", "X-Api-Key">>

\* header names a request of the model may carry; "Accept" is not forwarded
HeaderNames == {"Accept-Language", "X-Api-Key", "Accept"}

NoHeaders == [n \in HeaderNames |-> ""]

Request(m, p, q, hdr, cks) ==
    [Method |-> m, Path |-> p, RawQuery |-> q, Header |-> hdr, Cookies |-> cks]

NoRequest == Request("", "", "", NoHeaders, <<>>)

Cookie(n, v) == [Name |-> n, Value |-> v]

\* the requests the pipeline is driven with
RequestInputs ==
    { Request(m, "/a", "", NoHeaders, <<>>) : m \in {"GET", "POST", "TRACE"} }

----------------------------------------------------------------------------
(* State *)

VARIABLES
    ForwardCookies,   \* h.ForwardCookies (configuration, read-only)
    browserPool,      \* h.browserPool: sequence of browsers, last element on top
    browserState,     \* per browser process: "none", "open", "closing", "closed"
    browserCookies,   \* cookie jar of each browser process
    created,          \* number of browser processes launched so far
    cache,            \* h.cache: key -> cacheEntry
    now,              \* time.Now()
    upstreamCalls,    \* number of requests the upstream server has answered
    pc,               \* position of each ServeHTTP invocation
    req,              \* r *http.Request of each invocation
    key,              \* key := h.getCacheKey(r), where it is computed on its own
    browser,          \* local browser of ServeHTTP
    defers,           \* deferred calls of ServeHTTP, next to run first
    response,         \* responseStatusCode / responseHeaders / responseContent
    resp,             \* what the invocation wrote to w
    exitPath,         \* the return statement the invocation left through
    released,         \* number of returnBrowser calls made by the invocation
    enable_js,        \* the enable_js directive: "unset", "true" or "false"
    EnableJS,         \* h.EnableJS
    OptimizeResources, \* h.OptimizeResources
    provisioned,      \* Provision has run
    ctxDone,          \* per invocation: the deadline of ctx has passed
    page,             \* per invocation: what has been done to its page
    err,              \* per call of handleError: the error passed, as its Unwrap chain
    errorResponse,    \* per call of handleError: the ErrorResponse written
    browserErrorsTotal, \* h.metrics.browserErrorsTotal: label -> count
    health,           \* the HealthStatus and status code of the last handleHealthCheck
    browserPoolLock,  \* h.browserPoolLock: its holder
    task,             \* position of the health pass and of Cleanup, run step by step
    cacheLock,        \* h.cacheLock: the holders of RLock and the holder of Lock
    monitoring,       \* the browsers a collectMetricsFromBrowser goroutine is running for
    gauges,           \* h.metrics.browserPoolSize and whether browserResourcesUsed is set
    returned,         \* per invocation: the error handleBrowserError has returned
    heap              \* the http.Header maps made by make(http.Header), by reference

poolVars == <<browserPool, browserState, browserCookies, created>>
reqVars == <<pc, req, key, browser, defers, response, resp, exitPath, released>>
cfgVars == <<enable_js, EnableJS, OptimizeResources, provisioned>>
pipeVars == <<ctxDone, page>>
errVars == <<err, errorResponse, browserErrorsTotal>>
lateVars == <<monitoring, gauges, returned, heap>>
extraVars == <<health, browserPoolLock, task, cacheLock, lateVars>>
moreVars == <<cfgVars, pipeVars, errVars, extraVars>>
vars == <<ForwardCookies, poolVars, cache, now, upstreamCalls, reqVars, moreVars>>

----------------------------------------------------------------------------
(* Cache key: getCacheKey *)

\* hex.EncodeToString(hasher.Sum(nil)) of the bytes written to the hasher
Sha256Hex(bytes) == <<"sha256", bytes>>

\* getCacheKey without the loop over h.ForwardHeaders
HeaderBytesNone(names, hdr) == ""

RECURSIVE HeaderBytes(_, _)
\* for _, header := range h.ForwardHeaders { if value != "" { Write(header + ":" + value) } }
HeaderBytes(names, hdr) ==
    IF names = <<>> THEN ""
    ELSE (IF hdr[Head(names)] # ""
            THEN Head(names) \o ":" \o hdr[Head(names)]
            ELSE "")
         \o HeaderBytes(Tail(names), hdr)

\* for _, cookie := range r.Cookies() { Write(cookie.Name + "=" + cookie.Value) }
RECURSIVE CookieBytes(_)
CookieBytes(cks) ==
    IF cks = <<>> THEN ""
    ELSE Head(cks).Name \o "=" \o Head(cks).Value \o CookieBytes(Tail(cks))

\* the bytes written to the hasher, in order
KeyBytes(r) ==
    r.Method \o r.Path \o r.RawQuery
    \o HeaderBytes(ForwardHeaders, r.Header)
    \o (IF ForwardCookies THEN CookieBytes(r.Cookies) ELSE "")

\* a key function that writes the header name but not its value
KeyBytesNoValue(r) ==
    r.Method \o r.Path \o r.RawQuery
    \o HeaderBytes(ForwardHeaders,
                   [n \in HeaderNames |-> IF r.Header[n] # "" THEN "*" ELSE ""])
    \o (IF ForwardCookies THEN CookieBytes(r.Cookies) ELSE "")

\* no key computed yet
NoKey == << >>

getCacheKeyNoValue(r) == Sha256Hex(KeyBytesNoValue(r))

getCacheKey(r) == Sha256Hex(KeyBytes(r))

----------------------------------------------------------------------------
(* Cache entries: getCachedResponse / setCachedResponse *)

CacheEntry(content, headers, status, expiration) ==
    [Content |-> content, Headers |-> headers, StatusCode |-> status,
     Expiration |-> expiration]

\* time.Now().Before(entry.Expiration) turned into !time.Now().After(...)
EntryFreshNotAfter(t, entry) == ~(t > entry.Expiration)

\* time.Now().Before(entry.Expiration)
EntryFresh(t, entry) == t < entry.Expiration

\* getCachedResponse without the expiry test
CacheHitAnyAge(c, k, t) == CacheTTL > 0 /\ k \in DOMAIN c

\* the found result of getCachedResponse for key k at time t
CacheHit(c, k, t) ==
    /\ CacheTTL > 0
    /\ k \in DOMAIN c
    /\ EntryFresh(t, c[k])

\* the map after getCachedResponse: an expired entry under k is deleted
CacheAfterLookup(c, k, t) ==
    IF CacheTTL > 0 /\ k \in DOMAIN c /\ ~EntryFresh(t, c[k])
    THEN [x \in DOMAIN c \ {k} |-> c[x]]
    ELSE c

\* the sweep at the head of setCachedResponse
CacheSweep(c, t) ==
    IF Cardinality(DOMAIN c) > HighWaterMark
    THEN [x \in {y \in DOMAIN c : ~(t > c[y].Expiration)} |-> c[x]]
    ELSE c

\* the map after setCachedResponse(r, content, headers, statusCode) at time t
setCachedResponse(c, r, content, headers, status, t) ==
    IF CacheTTL <= 0 THEN c
    ELSE (getCacheKey(r) :> CacheEntry(content, headers, status, t + CacheTTL))
         @@ CacheSweep(c, t)

----------------------------------------------------------------------------
(* Responses *)

Response(status, headers, content) ==
    [StatusCode |-> status, Headers |-> headers, Content |-> content]

\* http.Header with no key
EmptyHeader == << >>

NoResponse == Response(0, EmptyHeader, "")

\* responseHeaders.Set(k, v)
HeaderSet(h, k, v) == (k :> <<v>>) @@ h

\* responseHeaders.Add(k, v)
HeaderAdd(h, k, v) ==
    IF k \in DOMAIN h THEN [h EXCEPT ![k] = Append(@, v)] ELSE (k :> <<v>>) @@ h

Digit == <<"0", "1", "2", "3", "4", "5", "6", "7", "8", "9">>

\* the document the upstream serves on its n-th call (n < 10)
PageContent(n) == "<html><body><h1>Test Page " \o Digit[n + 1] \o "</h1></body></html>"

\* what the upstream can answer to a script-executed fetch: status and headers
FetchResults ==
    { [status |-> 200, headers |-> EmptyHeader],
      [status |-> 200, headers |-> HeaderSet(EmptyHeader, "Cache-Control", "no-store")],
      [status |-> 404, headers |-> EmptyHeader] }

\* http.Header.Get("Cache-Control"): the first value, "" when absent
CacheControlOf(h) ==
    IF "Cache-Control" \in DOMAIN h THEN h["Cache-Control"][1] ELSE ""

----------------------------------------------------------------------------
(* Browser pool: createBrowser / getBrowser / returnBrowser / Cleanup *)

\* len(h.browserPool) > h.MaxBrowsers, a pool that takes one browser too many
PoolFullStrict(pool) == Len(pool) > MaxBrowsers

\* len(h.browserPool) >= h.MaxBrowsers
PoolFull(pool) == Len(pool) >= MaxBrowsers

\* getBrowser returning the top browser without removing it from the pool
PoolAfterGetKeep(pool) == pool

\* h.browserPool = h.browserPool[:len(h.browserPool)-1]
PoolAfterGet(pool) == SubSeq(pool, 1, Len(pool) - 1)

\* ServeHTTP without the deferred returnBrowser
NoDeferAfterAcquire == << >>

\* defer h.returnBrowser(browser)
DeferAfterAcquire == <<"returnBrowser">>

\* browser.Close() on a browser process
Closed(bstate, b) == [bstate EXCEPT ![b] = "closed"]

\* a surplus browser that is dropped without the closing goroutine
CloseForgotten(bstate, b) == bstate

\* go func() { browser.Close() }(): the close is pending until the task runs
ClosePending(bstate, b) ==
    [bstate EXCEPT ![b] = IF @ = "closed" THEN "closed" ELSE "closing"]

\* a session is checked out between getBrowser and the deferred returnBrowser
Holding(r) == pc[r] \in {"execute", "store", "defers"}

\* a shutdown that drops the pool without closing its browsers
CloseNone(bstate, pool) == bstate

RECURSIVE CloseAll(_, _)
\* for _, browser := range h.browserPool { browser.Close() }
CloseAll(bstate, pool) ==
    IF pool = <<>> THEN bstate
    ELSE CloseAll(Closed(bstate, Head(pool)), Tail(pool))

----------------------------------------------------------------------------
(* Initial state: Provision *)

\* what ServeHTTP has done to its page: the script installed by the "Disable
\* JavaScript" branch, and the outcome of optimizePage ("no" when it was not called)
Page(jsDisabled, optimized) == [jsDisabled |-> jsDisabled, optimized |-> optimized]

NoPage == Page(FALSE, "no")

\* no invocation has created its ctx or touched its page
PipelineIdle ==
    /\ ctxDone = [r \in Reqs |-> FALSE]
    /\ page = [r \in Reqs |-> NoPage]

\* the Err* variables, and the errors of other packages
Sentinels ==
    {"ErrBrowserUnavailable", "ErrPageCreationFailed", "ErrNavigationFailed",
     "ErrTimeout", "ErrRequestFailed", "ErrResponseProcessing"}

\* the labels handleError gives to browserErrorsTotal
ErrorLabels ==
    {"unknown", "browser_unavailable", "page_creation_failed", "navigation_failed",
     "timeout", "request_failed", "response_processing", "deadline_exceeded"}

\* the labels collectMetricsFromBrowser gives to browserErrorsTotal
MonitorLabels == {"create_page", "get_process_info"}

\* an error that was never passed
NoError == << >>

ErrorResponse(errorType, status, description) ==
    [Error |-> errorType, Status |-> status, Description |-> description]

NoErrorResponse == ErrorResponse("", 0, "")

\* handleError has not been called
ErrorsIdle ==
    /\ err = [r \in Reqs |-> NoError]
    /\ errorResponse = [r \in Reqs |-> NoErrorResponse]
    /\ browserErrorsTotal = [l \in ErrorLabels \cup MonitorLabels |-> 0]

\* the HealthStatus fields the model keeps, and the status code written
HealthStatus(status, size, healthyCount, unhealthyCount, timestamp, code) ==
    [Status |-> status, Size |-> size, HealthyCount |-> healthyCount,
     UnhealthyCount |-> unhealthyCount, Timestamp |-> timestamp, Code |-> code]

\* the health surface has not been queried
NoHealth == HealthStatus("", 0, 0, 0, 0, 0)

\* the holder of a lock: a ServeHTTP invocation or a task
Request_(r) == <<"request", r>>

Task(t) == <<"task", t>>

\* an unlocked sync.Mutex
NoHolder == << >>

\* the gauges of the metrics: browserPoolSize, and whether any browserResourcesUsed
\* value was set
Gauges(size, used) == [browserPoolSize |-> size, browserResourcesUsed |-> used]

\* a sync.RWMutex: the invocations inside RLock/RUnlock and the holder of Lock
RWMutex(readers, writer) == [readers |-> readers, writer |-> writer]

\* the functions other than ServeHTTP that take h.browserPoolLock
Tasks == {"checkBrowsersHealth", "Cleanup"}

\* nothing outside ServeHTTP has run
ExtrasIdle ==
    /\ health = NoHealth
    /\ browserPoolLock = NoHolder
    /\ task = [t \in Tasks |-> "idle"]
    /\ cacheLock = RWMutex({}, NoHolder)
    /\ monitoring = {}
    /\ gauges = Gauges(0, FALSE)
    /\ returned = [r \in Reqs |-> NoError]
    /\ heap = << >>

Init ==
    /\ ForwardCookies = FALSE
    /\ enable_js = "unset"
    /\ EnableJS = TRUE                        \* Provision: h.EnableJS = true
    /\ OptimizeResources = FALSE
    /\ provisioned = TRUE
    /\ PipelineIdle
    /\ ErrorsIdle
    /\ ExtrasIdle
    /\ \/ /\ created = 1                      \* initBrowserPool: createBrowser succeeded
          /\ browserPool = <<1>>
          /\ browserState = [b \in BrowserIds |-> IF b = 1 THEN "open" ELSE "none"]
       \/ /\ created = 0                      \* createBrowser returned nil
          /\ browserPool = <<>>
          /\ browserState = [b \in BrowserIds |-> "none"]
    /\ browserCookies = [b \in BrowserIds |-> {}]
    /\ cache = << >>
    /\ now = 0
    /\ upstreamCalls = 0
    /\ pc = [r \in Reqs |-> "idle"]
    /\ req = [r \in Reqs |-> NoRequest]
    /\ key = [r \in Reqs |-> NoKey]
    /\ browser = [r \in Reqs |-> NilBrowser]
    /\ defers = [r \in Reqs |-> << >>]
    /\ response = [r \in Reqs |-> NoResponse]
    /\ resp = [r \in Reqs |-> NoResponse]
    /\ exitPath = [r \in Reqs |-> ""]
    /\ released = [r \in Reqs |-> 0]

----------------------------------------------------------------------------
(* ServeHTTP *)

\* a request arrives and a ServeHTTP invocation starts; the goroutines are
\* interchangeable, so they are numbered in the order in which they start
Arrive(r, rq) ==
    /\ provisioned
    /\ pc[r] = "idle"
    /\ \A q \in Reqs : q < r => pc[q] # "idle"
    /\ pc' = [pc EXCEPT ![r] = "cacheCheck"]
    /\ req' = [req EXCEPT ![r] = rq]
    /\ key' = key
    /\ browser' = [browser EXCEPT ![r] = NilBrowser]
    /\ defers' = [defers EXCEPT ![r] = << >>]
    /\ response' = [response EXCEPT ![r] = NoResponse]
    /\ resp' = [resp EXCEPT ![r] = NoResponse]
    /\ exitPath' = [exitPath EXCEPT ![r] = ""]
    /\ released' = [released EXCEPT ![r] = 0]
    /\ UNCHANGED moreVars
    /\ UNCHANGED <<ForwardCookies, poolVars, cache, now, upstreamCalls>>

\* found := h.getCachedResponse(r), and the cache-hit branch of ServeHTTP
CacheCheck(r) ==
    /\ pc[r] = "cacheCheck"
    /\ LET k == getCacheKey(req[r])
       IN IF CacheHit(cache, k, now)
          THEN /\ resp' = [resp EXCEPT ![r] =
                      Response(cache[k].StatusCode, cache[k].Headers, cache[k].Content)]
               /\ exitPath' = [exitPath EXCEPT ![r] = "cacheHit"]
               /\ pc' = [pc EXCEPT ![r] = "done"]
               /\ cache' = cache
          ELSE /\ cache' = CacheAfterLookup(cache, k, now)
               /\ pc' = [pc EXCEPT ![r] = "getBrowser"]
               /\ UNCHANGED <<resp, exitPath>>
    /\ UNCHANGED moreVars
    /\ UNCHANGED <<ForwardCookies, poolVars, now, upstreamCalls, req, key, browser, defers,
                   response, released>>

\* browser.Page(...) can succeed on a running browser only
PageOutcomes(bstate, b) == IF bstate[b] = "open" THEN {TRUE, FALSE} ELSE {FALSE}

\* the locals after getBrowser returned b and browser.Page(...) returned pageOk:
\* defer h.returnBrowser(browser), then either "failed to create page" or
\* defer page.Close()
AfterAcquire(r, b, pageOk) ==
    /\ browser' = [browser EXCEPT ![r] = b]
    /\ IF pageOk
       THEN /\ defers' = [defers EXCEPT ![r] = <<"page.Close">> \o DeferAfterAcquire]
            /\ pc' = [pc EXCEPT ![r] = "execute"]
            /\ exitPath' = exitPath
       ELSE /\ defers' = [defers EXCEPT ![r] = DeferAfterAcquire]
            /\ pc' = [pc EXCEPT ![r] = "defers"]
            /\ exitPath' = [exitPath EXCEPT ![r] = "pageCreationFailed"]
    /\ req' = req
    /\ key' = key

\* browser := h.getBrowser(); if browser == nil { return error };
\* defer h.returnBrowser(browser); page, err := browser.Page(...)
GetBrowser(r) ==
    /\ pc[r] = "getBrowser"
    /\ \/ /\ Len(browserPool) > 0
          /\ browserPool' = PoolAfterGet(browserPool)
          /\ UNCHANGED <<browserState, created>>
          /\ \E pageOk \in PageOutcomes(browserState, browserPool[Len(browserPool)]) :
                AfterAcquire(r, browserPool[Len(browserPool)], pageOk)
       \/ /\ Len(browserPool) = 0              \* createBrowser succeeds
          /\ created < MaxCreated
          /\ created' = created + 1
          /\ browserState' = [browserState EXCEPT ![created + 1] = "open"]
          /\ browserPool' = browserPool
          /\ \E pageOk \in BOOLEAN : AfterAcquire(r, created + 1, pageOk)
       \/ /\ Len(browserPool) = 0              \* createBrowser returns nil
          /\ exitPath' = [exitPath EXCEPT ![r] = "acquireFailed"]
          /\ pc' = [pc EXCEPT ![r] = "done"]
          /\ UNCHANGED <<req, key>>
          /\ UNCHANGED <<browserPool, browserState, created, browser, defers>>
    /\ UNCHANGED moreVars
    /\ UNCHANGED <<ForwardCookies, browserCookies, cache, now, upstreamCalls,
                   response, resp, released>>

RECURSIVE CookieSet(_)
\* the cookies of a request as a set
CookieSet(cks) == IF cks = <<>> THEN {} ELSE {Head(cks)} \cup CookieSet(Tail(cks))

\* the jars the "Forward cookies" loop can leave: each page.SetCookies may fail
JarsAfterForward(jar, rq) ==
    IF ForwardCookies
    THEN {jar \cup cs : cs \in SUBSET CookieSet(rq.Cookies)}
    ELSE {jar}

\* one outcome of the part of ServeHTTP between page creation and cookie sync
ExecResult(r, jar, calls, nextPc, path, locals, written) ==
    /\ browserCookies' = [browserCookies EXCEPT ![browser[r]] = jar]
    /\ upstreamCalls' = calls
    /\ pc' = [pc EXCEPT ![r] = nextPc]
    /\ exitPath' = [exitPath EXCEPT ![r] = path]
    /\ response' = [response EXCEPT ![r] = locals]
    /\ resp' = [resp EXCEPT ![r] = written]
    /\ UNCHANGED moreVars
    /\ UNCHANGED <<ForwardCookies, browserPool, browserState, created, cache, now,
                   req, key, browser, defers, released>>

\* page.SetUserAgent fails
ExecuteConfigFail(r) ==
    /\ pc[r] = "execute"
    /\ ExecResult(r, browserCookies[browser[r]], upstreamCalls, "defers",
                  "configurationFailed", NoResponse, NoResponse)

\* the statuses the upstream can answer a navigation with
NavigationStatuses == {200, 404, 500}

\* a GET branch that takes the status of the upstream's answer as its own
RenderedResponseOfUpstream(status, content) ==
    Response(status,
             HeaderSet(EmptyHeader, "Content-Type", "text/html; charset=utf-8"),
             content)

\* the response locals at the end of the GET branch, the upstream having answered
\* the navigation with the given status: responseStatusCode keeps its initial
\* http.StatusOK, responseContent = []byte(content), and
\* responseHeaders.Set("Content-Type", "text/html; charset=utf-8")
RenderedResponse(status, content) ==
    Response(200,
             HeaderSet(EmptyHeader, "Content-Type", "text/html; charset=utf-8"),
             content)

\* case http.MethodGet
ExecuteGet(r) ==
    /\ pc[r] = "execute"
    /\ req[r].Method = "GET"
    /\ \E jar \in JarsAfterForward(browserCookies[browser[r]], req[r]) :
        \/ ExecResult(r, jar, upstreamCalls, "defers", "navigationFailed",
                      NoResponse, NoResponse)
        \* page.WaitNavigation or page.HTML fails after the upstream has answered
        \/ ExecResult(r, jar, upstreamCalls + 1, "defers", "loadFailed",
                      NoResponse, NoResponse)
        \/ \E status \in NavigationStatuses :
              ExecResult(r, jar, upstreamCalls + 1, "store", "",
                         RenderedResponse(status, PageContent(upstreamCalls + 1)),
                         NoResponse)

\* the fetch error answered with http.StatusInternalServerError
FetchErrorResponse500 ==
    Response(500, EmptyHeader, "Error communicating with upstream server")

\* w.WriteHeader(http.StatusBadGateway); w.Write([]byte("Error communicating ..."))
FetchErrorResponse ==
    Response(502, EmptyHeader, "Error communicating with upstream server")

\* case http.MethodPost, http.MethodPut, http.MethodDelete, http.MethodPatch
ExecuteFetch(r) ==
    /\ pc[r] = "execute"
    /\ req[r].Method \in {"POST", "PUT", "DELETE", "PATCH"}
    /\ \E jar \in JarsAfterForward(browserCookies[browser[r]], req[r]) :
        \* io.ReadAll(r.Body) or page.Eval(fetchScript) fails
        \/ ExecResult(r, jar, upstreamCalls, "defers", "fetchFailed",
                      NoResponse, NoResponse)
        \/ ExecResult(r, jar, upstreamCalls, "defers", "fetchError",
                      NoResponse, FetchErrorResponse)
        \/ \E res \in FetchResults :
              ExecResult(r, jar, upstreamCalls + 1, "store", "",
                         Response(res.status, res.headers,
                                  PageContent(upstreamCalls + 1)),
                         NoResponse)

\* default: any other method
ExecuteOther(r) ==
    /\ pc[r] = "execute"
    /\ req[r].Method \notin {"GET", "POST", "PUT", "DELETE", "PATCH"}
    /\ \E jar \in JarsAfterForward(browserCookies[browser[r]], req[r]) :
          ExecResult(r, jar, upstreamCalls, "defers", "methodNotAllowed",
                     NoResponse, Response(405, EmptyHeader, "Method not allowed"))

RECURSIVE SetCookieHeaders(_, _)
\* for _, cookie := range pageCookies { responseHeaders.Add("Set-Cookie", cookieStr) }
SetCookieHeaders(h, jar) ==
    IF jar = {} THEN h
    ELSE LET c == CHOOSE x \in jar : TRUE
         IN SetCookieHeaders(HeaderAdd(h, "Set-Cookie", c.Name \o "=" \o c.Value),
                             jar \ {c})

\* the headers after the cookie sync: page.Cookies may fail, and is then skipped
HeadersAfterSync(h, jar) ==
    IF ForwardCookies THEN {h, SetCookieHeaders(h, jar)} ELSE {h}

\* cookie sync, h.setCachedResponse(r, responseContent, responseHeaders, status),
\* then the headers, w.WriteHeader(responseStatusCode) and w.Write(responseContent)
Store(r) ==
    /\ pc[r] = "store"
    /\ \E h \in HeadersAfterSync(response[r].Headers, browserCookies[browser[r]]) :
        /\ response' = [response EXCEPT ![r].Headers = h]
        /\ cache' = setCachedResponse(cache, req[r], response[r].Content, h,
                                      response[r].StatusCode, now)
        /\ resp' = [resp EXCEPT ![r] = [response[r] EXCEPT !.Headers = h]]
    /\ \/ exitPath' = [exitPath EXCEPT ![r] = "success"]
       \/ exitPath' = [exitPath EXCEPT ![r] = "writeFailed"]
    /\ pc' = [pc EXCEPT ![r] = "defers"]
    /\ UNCHANGED moreVars
    /\ UNCHANGED <<ForwardCookies, poolVars, now, upstreamCalls, req, key, browser, defers,
                   released>>

\* the function returns: the deferred calls run, h.returnBrowser(browser) among them
RunDefers(r) ==
    /\ pc[r] = "defers"
    /\ IF \E i \in 1 .. Len(defers[r]) : defers[r][i] = "returnBrowser"
       THEN /\ released' = [released EXCEPT ![r] = @ + 1]
            /\ IF PoolFull(browserPool)
               THEN /\ browserState' = ClosePending(browserState, browser[r])
                    /\ browserPool' = browserPool
               ELSE /\ browserPool' = Append(browserPool, browser[r])
                    /\ browserState' = browserState
       ELSE UNCHANGED <<released, browserPool, browserState>>
    /\ defers' = [defers EXCEPT ![r] = << >>]
    /\ pc' = [pc EXCEPT ![r] = "done"]
    /\ response' = [response EXCEPT ![r] = NoResponse]
    /\ UNCHANGED moreVars
    /\ UNCHANGED <<ForwardCookies, browserCookies, created, cache, now, upstreamCalls,
                   req, key, browser, resp, exitPath>>

\* the goroutine started by returnBrowser closes the surplus browser
CloseTask(b) ==
    /\ browserState[b] = "closing"
    /\ browserState' = Closed(browserState, b)
    /\ UNCHANGED moreVars
    /\ UNCHANGED <<ForwardCookies, browserPool, browserCookies, created, cache, now,
                   upstreamCalls, reqVars>>

\* time passes
Tick ==
    /\ now < MaxTime
    /\ now' = now + 1
    /\ UNCHANGED moreVars
    /\ UNCHANGED <<ForwardCookies, poolVars, cache, upstreamCalls, reqVars>>

----------------------------------------------------------------------------
(* Health surface: getHealthStatus / checkBrowsersHealth / isBrowserHealthy *)

\* isBrowserHealthy: a browser that is not running fails the probe, a running one
\* passes or fails it (probe is the outcome the engine gives)
isBrowserHealthy(bstate, b, probe) == bstate[b] = "open" /\ probe

RECURSIVE HealthPassDropFailed(_, _, _, _)
\* a pass that removes the slot of a browser whose replacement could not be created
HealthPassDropFailed(i, st, probe, launch) ==
    IF i > Len(st.pool) THEN st
    ELSE LET b == st.pool[i]
         IN IF isBrowserHealthy(st.bstate, b, probe[i])
            THEN HealthPassDropFailed(i + 1, [st EXCEPT !.healthy = @ + 1], probe, launch)
            ELSE IF launch[i] /\ st.created < MaxCreated
                 THEN HealthPassDropFailed(i + 1,
                        [st EXCEPT !.unhealthy = @ + 1,
                                   !.bstate = [Closed(st.bstate, b)
                                                 EXCEPT ![st.created + 1] = "open"],
                                   !.pool = [st.pool EXCEPT ![i] = st.created + 1],
                                   !.created = @ + 1],
                        probe, launch)
                 ELSE HealthPassDropFailed(i,
                        [st EXCEPT !.unhealthy = @ + 1,
                                   !.bstate = Closed(st.bstate, b),
                                   !.pool = SubSeq(st.pool, 1, i - 1)
                                            \o SubSeq(st.pool, i + 1, Len(st.pool))],
                        [j \in 1 .. Len(st.pool) - 1 |->
                            IF j < i THEN probe[j] ELSE probe[j + 1]],
                        [j \in 1 .. Len(st.pool) - 1 |->
                            IF j < i THEN launch[j] ELSE launch[j + 1]])

RECURSIVE HealthPass(_, _, _, _)
\* the loop of checkBrowsersHealth from index i on; st carries the pool, the browser
\* processes and the two counts; probe[i] and launch[i] are the outcomes of the
\* probe of slot i and of the createBrowser call made for it
HealthPass(i, st, probe, launch) ==
    IF i > Len(st.pool) THEN st
    ELSE LET b == st.pool[i]
         IN IF isBrowserHealthy(st.bstate, b, probe[i])
            THEN HealthPass(i + 1, [st EXCEPT !.healthy = @ + 1], probe, launch)
            ELSE IF launch[i] /\ st.created < MaxCreated
                 THEN HealthPass(i + 1,
                        [st EXCEPT !.unhealthy = @ + 1,
                                   !.bstate = [Closed(st.bstate, b)
                                                 EXCEPT ![st.created + 1] = "open"],
                                   !.pool = [st.pool EXCEPT ![i] = st.created + 1],
                                   !.created = @ + 1],
                        probe, launch)
                 ELSE HealthPass(i + 1,
                        [st EXCEPT !.unhealthy = @ + 1,
                                   !.bstate = Closed(st.bstate, b)],
                        probe, launch)

\* a status that reports every pass with a failed probe as unhealthy
OverallStatusNoDegraded(healthyCount, unhealthyCount) ==
    IF unhealthyCount > 0 THEN "unhealthy" ELSE "healthy"

\* "Determine overall status" of getHealthStatus
OverallStatus(healthyCount, unhealthyCount) ==
    IF unhealthyCount > 0 /\ healthyCount = 0 THEN "unhealthy"
    ELSE IF unhealthyCount > 0 THEN "degraded"
    ELSE "healthy"

\* checkBrowsersHealth: one pass over the pool under the pool lock
checkBrowsersHealth ==
    /\ \E probe \in [1 .. Len(browserPool) -> BOOLEAN],
          launch \in [1 .. Len(browserPool) -> BOOLEAN] :
          LET st == HealthPass(1, [pool |-> browserPool, bstate |-> browserState,
                                   created |-> created, healthy |-> 0,
                                   unhealthy |-> 0],
                               probe, launch)
          IN /\ browserPool' = st.pool
             /\ browserState' = st.bstate
             /\ created' = st.created
    /\ UNCHANGED moreVars
    /\ UNCHANGED <<ForwardCookies, browserCookies, cache, now, upstreamCalls, reqVars>>

\* Cleanup: every pooled browser is closed and the pool is emptied
Cleanup ==
    /\ browserState' = CloseAll(browserState, browserPool)
    /\ browserPool' = << >>
    /\ UNCHANGED moreVars
    /\ UNCHANGED <<ForwardCookies, browserCookies, created, cache, now, upstreamCalls,
                   reqVars>>

----------------------------------------------------------------------------
(* Specification *)

Next ==
    \/ \E r \in Reqs : \E rq \in RequestInputs : Arrive(r, rq)
    \/ \E r \in Reqs : CacheCheck(r)
    \/ \E r \in Reqs : GetBrowser(r)
    \/ \E r \in Reqs : ExecuteConfigFail(r)
    \/ \E r \in Reqs : ExecuteGet(r)
    \/ \E r \in Reqs : ExecuteFetch(r)
    \/ \E r \in Reqs : ExecuteOther(r)
    \/ \E r \in Reqs : Store(r)
    \/ \E r \in Reqs : RunDefers(r)
    \/ \E b \in BrowserIds : CloseTask(b)
    \/ Tick
    \/ checkBrowsersHealth
    \/ Cleanup

Spec == Init /\ [][Next]_vars

----------------------------------------------------------------------------
(* The cache key on its own: getCacheKey applied to pairs of requests *)

\* the requests getCacheKey is applied to
KeyRequests ==
    { Request(m, p, q,
              [n \in HeaderNames |->
                 IF n = "Accept-Language" THEN al
                 ELSE IF n = "X-Api-Key" THEN ak ELSE ac],
              cks) :
        m \in {"GET", "POST"}, p \in {"/a", "/ab"}, q \in {"", "b"},
        al \in {"", "en", "fr"}, ak \in {"", "k"}, ac \in {"", "text/html"},
        cks \in {<< >>, <<Cookie("sid", "1")>>} }

InitKey ==
    /\ ForwardCookies \in BOOLEAN
    /\ enable_js = "unset"
    /\ EnableJS = TRUE
    /\ OptimizeResources = FALSE
    /\ provisioned = TRUE
    /\ PipelineIdle
    /\ ErrorsIdle
    /\ ExtrasIdle
    /\ req \in [Reqs -> KeyRequests]
    /\ key = [r \in Reqs |-> NoKey]
    /\ created = 0
    /\ browserPool = << >>
    /\ browserState = [b \in BrowserIds |-> "none"]
    /\ browserCookies = [b \in BrowserIds |-> {}]
    /\ cache = << >>
    /\ now = 0
    /\ upstreamCalls = 0
    /\ pc = [r \in Reqs |-> "cacheCheck"]
    /\ browser = [r \in Reqs |-> NilBrowser]
    /\ defers = [r \in Reqs |-> << >>]
    /\ response = [r \in Reqs |-> NoResponse]
    /\ resp = [r \in Reqs |-> NoResponse]
    /\ exitPath = [r \in Reqs |-> ""]
    /\ released = [r \in Reqs |-> 0]

\* key := h.getCacheKey(r)
ComputeKey(r) ==
    /\ key[r] = NoKey
    /\ key' = [key EXCEPT ![r] = getCacheKey(req[r])]
    /\ UNCHANGED moreVars
    /\ UNCHANGED <<ForwardCookies, poolVars, cache, now, upstreamCalls, pc, req,
                   browser, defers, response, resp, exitPath, released>>

NextKey == \E r \in Reqs : ComputeKey(r)

SpecKey == InitKey /\ [][NextKey]_vars

----------------------------------------------------------------------------
(* Claims about the browser pool *)

\* a browser is a member of the pool
Pooled(b) == \E i \in 1 .. Len(browserPool) : browserPool[i] = b

\* a browser is checked out by some ServeHTTP invocation
CheckedOut(b) == \E r \in Reqs : Holding(r) /\ browser[r] = b

\* C1: in every reachable state the pool holds at least 0 and at most MaxBrowsers
\* sessions, whatever the interleaving of getBrowser, returnBrowser,
\* checkBrowsersHealth and Cleanup
C1_PoolBound == Len(browserPool) >= 0 /\ Len(browserPool) <= MaxBrowsers

\* C1 witness: a release has found the pool at capacity and handed the surplus
\* browser to the closing goroutine
C1_Witness ==
    /\ Len(browserPool) = MaxBrowsers
    /\ \E r \in Reqs : /\ pc[r] = "done"
                       /\ released[r] = 1
                       /\ browserState[browser[r]] = "closing"
                       /\ ~Pooled(browser[r])

\* C2: no two ServeHTTP invocations hold the same session between their acquire
\* and their release
C2_ExclusiveUse ==
    \A r1, r2 \in Reqs :
        (r1 # r2 /\ Holding(r1) /\ Holding(r2)) => browser[r1] # browser[r2]

\* C2 witness: two invocations hold sessions at the same time, one of them a
\* session taken from the pool
C2_Witness ==
    \E r1, r2 \in Reqs :
        /\ r1 # r2
        /\ Holding(r1) /\ Holding(r2)
        /\ browser[r1] = 1 /\ browser[r2] = 2
        /\ browserPool = << >>

\* an invocation got a session from getBrowser
Acquired(r) == browser[r] # NilBrowser

\* C3: a request that acquired a session has called returnBrowser exactly once when
\* it has returned, on every exit path, and never before it returns; a request that
\* acquired no session (cache hit, acquire failure) never calls it
C3_ReleaseExactlyOnce ==
    \A r \in Reqs :
        /\ pc[r] = "done" => released[r] = (IF Acquired(r) THEN 1 ELSE 0)
        /\ pc[r] # "done" => released[r] = 0
        /\ exitPath[r] \in {"cacheHit", "acquireFailed"} => ~Acquired(r)

\* C3 witness: one request has left through a failure path after acquiring and has
\* released once, the other was served from the cache and has released nothing
C3_Witness ==
    \E r1, r2 \in Reqs :
        /\ pc[r1] = "done" /\ exitPath[r1] = "writeFailed" /\ released[r1] = 1
        /\ pc[r2] = "done" /\ exitPath[r2] = "cacheHit" /\ released[r2] = 0

\* C4: every session is in exactly one of the states pooled, checked out, closed
\* (or being closed): none is pooled and checked out at once, none is pooled twice,
\* and a closed or closing session is neither pooled nor checked out
C4_OneStateAtATime ==
    \A b \in BrowserIds :
        /\ ~(Pooled(b) /\ CheckedOut(b))
        /\ Cardinality({i \in 1 .. Len(browserPool) : browserPool[i] = b}) <= 1
        /\ browserState[b] \in {"closing", "closed"} => ~Pooled(b) /\ ~CheckedOut(b)

----------------------------------------------------------------------------
(* Claims about the response cache *)

MutatingMethods == {"POST", "PUT", "DELETE", "PATCH"}

\* the keys under which the requests of a set of methods are stored
KeysOfMethods(methods) == {getCacheKey(rq) : rq \in {x \in RequestInputs : x.Method \in methods}}

\* request r takes its cache lookup in this step
LookupStep(r) == pc[r] = "cacheCheck" /\ pc'[r] # "cacheCheck"

\* request r is answered in this step from the entry stored under its key, with
\* no session acquired and no rendering
ServedFromEntry(r) ==
    LET e == cache[getCacheKey(req[r])]
    IN /\ pc'[r] = "done"
       /\ exitPath'[r] = "cacheHit"
       /\ resp'[r] = Response(e.StatusCode, e.Headers, e.Content)
       /\ browser'[r] = NilBrowser
       /\ upstreamCalls' = upstreamCalls
       /\ UNCHANGED poolVars

C6_WritesBypassCache ==
    /\ \A r \in Reqs : req[r].Method \in MutatingMethods => exitPath[r] # "cacheHit"
    /\ DOMAIN cache \cap KeysOfMethods(MutatingMethods) = {}

\* C7: no response whose headers carry Cache-Control: no-store (or no-cache) is
\* inserted into the cache
C7_NoStoreHonoured ==
    \A k \in DOMAIN cache :
        CacheControlOf(cache[k].Headers) \notin {"no-store", "no-cache"}

C9_OnlyGet2xxStored ==
    \A k \in DOMAIN cache :
        /\ cache[k].StatusCode >= 200 /\ cache[k].StatusCode < 300
        /\ k \in KeysOfMethods({"GET"})

----------------------------------------------------------------------------
(* Claims about the cache key *)

\* the inputs of the key: method, path, query, the values of the forwarded headers
\* and, when cookies are forwarded, the cookies
SameKeyInputs(a, b) ==
    /\ a.Method = b.Method /\ a.Path = b.Path /\ a.RawQuery = b.RawQuery
    /\ \A i \in 1 .. Len(ForwardHeaders) :
          a.Header[ForwardHeaders[i]] = b.Header[ForwardHeaders[i]]
    /\ ForwardCookies => a.Cookies = b.Cookies

\* the two requests differ in the value of a forwarded header and in nothing else
DifferOnlyInForwardedHeader(a, b) ==
    /\ a.Method = b.Method /\ a.Path = b.Path /\ a.RawQuery = b.RawQuery
    /\ a.Cookies = b.Cookies
    /\ \E i \in 1 .. Len(ForwardHeaders) :
          /\ a.Header[ForwardHeaders[i]] # b.Header[ForwardHeaders[i]]
          /\ \A n \in HeaderNames \ {ForwardHeaders[i]} : a.Header[n] = b.Header[n]

\* C10: two requests with identical method, path, query, forwarded header values and
\* (when cookies are forwarded) cookies get the same key; two requests that differ
\* only in the value of a forwarded header get different keys
C10_KeyDeterminism ==
    \A r1, r2 \in Reqs :
        (key[r1] # NoKey /\ key[r2] # NoKey) =>
            /\ SameKeyInputs(req[r1], req[r2]) => key[r1] = key[r2]
            /\ DifferOnlyInForwardedHeader(req[r1], req[r2]) => key[r1] # key[r2]

\* C10 witness: keys were computed for two requests that differ only in the value
\* of Accept-Language, and the keys differ
C10_Witness ==
    /\ key[1] # NoKey /\ key[2] # NoKey
    /\ DifferOnlyInForwardedHeader(req[1], req[2])
    /\ req[1].Header["Accept-Language"] = "en"
    /\ req[2].Header["Accept-Language"] = "fr"
    /\ key[1] # key[2]

----------------------------------------------------------------------------
(* GET requests that differ in a forwarded header *)

\* the header value the request carries for Accept-Language
WithAcceptLanguage(v) == [NoHeaders EXCEPT !["Accept-Language"] = v]

\* GET /a sent with Accept-Language: en and with Accept-Language: fr
HeaderRequestInputs ==
    { Request("GET", "/a", "", WithAcceptLanguage(v), <<>>) : v \in {"en", "fr"} }

NextHeader ==
    \/ \E r \in Reqs : \E rq \in HeaderRequestInputs : Arrive(r, rq)
    \/ \E r \in Reqs : CacheCheck(r)
    \/ \E r \in Reqs : GetBrowser(r)
    \/ \E r \in Reqs : ExecuteConfigFail(r)
    \/ \E r \in Reqs : ExecuteGet(r)
    \/ \E r \in Reqs : Store(r)
    \/ \E r \in Reqs : RunDefers(r)
    \/ \E b \in BrowserIds : CloseTask(b)
    \/ Tick
    \/ checkBrowsersHealth
    \/ Cleanup

SpecHeader == Init /\ [][NextHeader]_vars

\* the two requests carry the same value for every header of ForwardHeaders
SameForwardedHeaders(a, b) ==
    \A i \in 1 .. Len(ForwardHeaders) :
        a.Header[ForwardHeaders[i]] = b.Header[ForwardHeaders[i]]

\* request r was rendered (not served from the cache) and its response was stored
Rendered(r) == exitPath[r] \in {"success", "writeFailed"}

----------------------------------------------------------------------------
(* Claims about the request pipeline *)

\* the methods the switch of ServeHTTP has a case for
HandledMethods == {"GET"} \cup MutatingMethods

\* C12: a request whose method is none of GET, POST, PUT, DELETE, PATCH is answered
\* 405 without acquiring or creating a session: it never holds a browser, and once
\* it has returned its response is 405 and it has released nothing
C12_OtherMethodsBypassPipeline ==
    \A r \in Reqs :
        (req[r] # NoRequest /\ req[r].Method \notin HandledMethods) =>
            /\ ~Acquired(r)
            /\ released[r] = 0
            /\ pc[r] = "done" => resp[r].StatusCode = 405

\* C13: a POST, PUT, DELETE or PATCH whose fetch script reports an error is answered
\* 502 with the body "Error communicating with upstream server"; from that step to
\* its return the request writes nothing to the cache, and when it has returned it
\* has released its session exactly once
C13_FetchErrorIs502 ==
    [][\A r \in Reqs :
          (/\ req[r].Method \in MutatingMethods
           /\ exitPath'[r] = "fetchError"
           /\ pc'[r] # pc[r]) =>
             /\ resp'[r].StatusCode = 502
             /\ resp'[r].Content = "Error communicating with upstream server"
             /\ cache' = cache
             /\ Acquired(r)
             /\ released'[r] = (IF pc'[r] = "done" THEN 1 ELSE 0)
      ]_vars

\* C13 witness: a POST whose fetch reported an error has returned with 502, its
\* browser is back in the pool and the cache is empty
C13_Witness ==
    \E r \in Reqs :
        /\ req[r].Method = "POST"
        /\ pc[r] = "done" /\ exitPath[r] = "fetchError"
        /\ resp[r].StatusCode = 502
        /\ released[r] = 1
        /\ Pooled(browser[r])
        /\ cache = << >>

----------------------------------------------------------------------------
(* Claims about the health pass, release and shutdown *)

\* C15: a pass of checkBrowsersHealth leaves the number of sessions in the pool as
\* it was, whatever the probes and the replacement launches return
C15_HealthPassKeepsPoolSize ==
    [][checkBrowsersHealth => Len(browserPool') = Len(browserPool)]_vars

\* C15 witness: before any request, a pass has closed the unhealthy browser of the
\* pool and put a new one in its slot
C15_Witness ==
    /\ \A r \in Reqs : pc[r] = "idle"
    /\ Len(browserPool) = 1
    /\ browserPool[1] # 1
    /\ browserState[browserPool[1]] = "open"
    /\ browserState[1] = "closed"

\* the browsers close on their detached goroutines: a started goroutine runs
FairSpec == Spec /\ \A b \in BrowserIds : WF_vars(CloseTask(b))

\* request r runs its deferred returnBrowser in this step
ReleaseStep(r) == pc[r] = "defers" /\ pc'[r] = "done" /\ Acquired(r)

\* browser b is neither pooled nor checked out and is being closed or closed: the
\* state in which a release at capacity leaves it
Discarded(b) ==
    browserState[b] \in {"closing", "closed"} /\ ~Pooled(b) /\ ~CheckedOut(b)

\* C16: a release made while the pool holds MaxBrowsers sessions or more leaves the
\* pool as it is and hands the session to the closing goroutine (unless it is closed
\* already), which closes it eventually; such a session never enters the pool again and no later acquire
\* returns it; a release made while the pool holds fewer appends the session to the
\* pool and does not close it
C16_ReleaseAtCapacity ==
    /\ [][\A r \in Reqs :
            ReleaseStep(r) =>
               IF Len(browserPool) >= MaxBrowsers
               THEN /\ browserPool' = browserPool
                    /\ browserState'[browser[r]] =
                          (IF browserState[browser[r]] = "closed"
                           THEN "closed" ELSE "closing")
               ELSE /\ browserPool' = Append(browserPool, browser[r])
                    /\ browserState'[browser[r]] = browserState[browser[r]]
        ]_vars
    /\ [][\A b \in BrowserIds :
            Discarded(b) =>
               /\ \A i \in 1 .. Len(browserPool') : browserPool'[i] # b
               /\ \A q \in Reqs : browser'[q] = b => browser[q] = b
        ]_vars
    /\ \A b \in BrowserIds :
          (browserState[b] = "closing") ~> (browserState[b] = "closed")

\* C16 witness: one request has released into a full pool, its browser is closed
\* and outside the pool; the other has released into a pool with room, its browser
\* is pooled and open
C16_Witness ==
    \E r, q \in Reqs :
        /\ pc[r] = "done" /\ released[r] = 1
        /\ browserState[browser[r]] = "closed" /\ ~Pooled(browser[r])
        /\ pc[q] = "done" /\ released[q] = 1
        /\ browserState[browser[q]] = "open" /\ Pooled(browser[q])
        /\ Len(browserPool) = MaxBrowsers

\* C17: Cleanup closes every session that is in the pool, leaves every other session
\* as it is and leaves the pool empty; a Cleanup that finds the pool empty (a second
\* one) closes nothing and changes nothing
C17_CleanupIdempotent ==
    [][Cleanup =>
          /\ browserPool' = << >>
          /\ \A b \in BrowserIds :
                browserState'[b] = (IF Pooled(b) THEN "closed" ELSE browserState[b])
          /\ browserPool = << >> => UNCHANGED vars
      ]_vars

\* C17 witness: before any request, Cleanup has closed the browser that
\* initBrowserPool had put in the pool, and the pool is empty
C17_Witness ==
    /\ \A r \in Reqs : pc[r] = "idle"
    /\ created = 1
    /\ browserState[1] = "closed"
    /\ browserPool = << >>

----------------------------------------------------------------------------
(* Provision, and ServeHTTP between page creation and the cache store, one
   session operation at a time *)

\* the values of the enable_js directive in the Caddyfile
Directives == {"unset", "true", "false"}

\* UnmarshalCaddyfile: h.EnableJS, err = parseBool(d.Val()); false when absent
ParsedEnableJS(directive) == directive = "true"

\* Provision: if !h.EnableJS { h.EnableJS = true }
ProvisionedEnableJS(flag) == IF ~flag THEN TRUE ELSE flag

\* the module as configured, before Provision
InitPipeline ==
    /\ ForwardCookies = FALSE
    /\ enable_js \in Directives
    /\ EnableJS = ParsedEnableJS(enable_js)
    /\ OptimizeResources \in BOOLEAN
    /\ provisioned = FALSE
    /\ PipelineIdle
    /\ ErrorsIdle
    /\ ExtrasIdle
    /\ created = 0
    /\ browserPool = << >>
    /\ browserState = [b \in BrowserIds |-> "none"]
    /\ browserCookies = [b \in BrowserIds |-> {}]
    /\ cache = << >>
    /\ now = 0
    /\ upstreamCalls = 0
    /\ pc = [r \in Reqs |-> "idle"]
    /\ req = [r \in Reqs |-> NoRequest]
    /\ key = [r \in Reqs |-> NoKey]
    /\ browser = [r \in Reqs |-> NilBrowser]
    /\ defers = [r \in Reqs |-> << >>]
    /\ response = [r \in Reqs |-> NoResponse]
    /\ resp = [r \in Reqs |-> NoResponse]
    /\ exitPath = [r \in Reqs |-> ""]
    /\ released = [r \in Reqs |-> 0]

\* Provision: the defaults, then initBrowserPool
Provision ==
    /\ ~provisioned
    /\ provisioned' = TRUE
    /\ EnableJS' = ProvisionedEnableJS(EnableJS)
    /\ \/ /\ created' = created + 1                 \* createBrowser succeeded
          /\ browserPool' = Append(browserPool, created + 1)
          /\ browserState' = [browserState EXCEPT ![created + 1] = "open"]
       \/ UNCHANGED <<created, browserPool, browserState>>   \* it returned nil
    /\ UNCHANGED <<enable_js, OptimizeResources, pipeVars, errVars, extraVars>>
    /\ UNCHANGED <<ForwardCookies, browserCookies, cache, now, upstreamCalls, reqVars>>

\* the session operations of ServeHTTP that wait for the browser
SessionOps == {"navigate", "waitNavigation", "optimize", "html", "fetch"}

\* the position of an invocation whose session operation never returns
BlockedIn(op) == op \o "Blocked"

\* the positions at which the ctx of the invocation exists
CtxLabels == SessionOps \cup {BlockedIn(op) : op \in SessionOps}

\* a step of invocation r from the given position that changes only its own
\* locals and the upstream's call count
PipelineStep(r, calls, nextPc, path, pg, locals, written) ==
    /\ upstreamCalls' = calls
    /\ pc' = [pc EXCEPT ![r] = nextPc]
    /\ exitPath' = [exitPath EXCEPT ![r] = path]
    /\ page' = [page EXCEPT ![r] = pg]
    /\ response' = [response EXCEPT ![r] = locals]
    /\ resp' = [resp EXCEPT ![r] = written]
    /\ UNCHANGED <<cfgVars, ctxDone, errVars, extraVars>>
    /\ UNCHANGED <<ForwardCookies, poolVars, cache, now, req, key, browser, defers,
                   released>>

\* the case of the method switch
MethodBranch(method) ==
    IF method = "GET" THEN "navigate"
    ELSE IF method \in {"POST", "PUT", "DELETE", "PATCH"} THEN "fetch"
    ELSE "default"

\* ctx, cancel := context.WithTimeout(...); SetUserAgent; if !h.EnableJS {
\* EvalOnNewDocument }; then the method switch, whose default case answers 405
Configure(r) ==
    /\ pc[r] = "execute"
    /\ \/ PipelineStep(r, upstreamCalls, "defers", "configurationFailed", page[r],
                       NoResponse, NoResponse)
       \/ LET pg == Page(~EnableJS, page[r].optimized)
          IN IF MethodBranch(req[r].Method) = "default"
             THEN PipelineStep(r, upstreamCalls, "defers", "methodNotAllowed", pg,
                               NoResponse,
                               Response(405, EmptyHeader, "Method not allowed"))
             ELSE PipelineStep(r, upstreamCalls, MethodBranch(req[r].Method), "", pg,
                               NoResponse, NoResponse)

\* the session operation the invocation waits for never returns
Hang(r) ==
    /\ pc[r] \in SessionOps
    /\ pc' = [pc EXCEPT ![r] = BlockedIn(pc[r])]
    /\ UNCHANGED moreVars
    /\ UNCHANGED <<ForwardCookies, poolVars, cache, now, upstreamCalls, req, key,
                   browser, defers, response, resp, exitPath, released>>

\* the timer of context.WithTimeout fires
DeadlineExpires(r) ==
    /\ pc[r] \in CtxLabels
    /\ ~ctxDone[r]
    /\ ctxDone' = [ctxDone EXCEPT ![r] = TRUE]
    /\ UNCHANGED <<cfgVars, page, errVars, extraVars>>
    /\ UNCHANGED <<ForwardCookies, poolVars, cache, now, upstreamCalls, reqVars>>

\* page.Context(ctx).Navigate(targetURL): the one operation that runs under ctx
Navigate(r) ==
    \/ /\ pc[r] = "navigate"
       /\ \/ PipelineStep(r, upstreamCalls, "defers", "navigationFailed", page[r],
                          NoResponse, NoResponse)
          \/ /\ ~ctxDone[r]
             /\ PipelineStep(r, upstreamCalls + 1, "waitNavigation", "", page[r],
                             NoResponse, NoResponse)
    \/ /\ pc[r] = BlockedIn("navigate")             \* ctx.Done() ends the wait
       /\ ctxDone[r]
       /\ PipelineStep(r, upstreamCalls, "defers", "navigationFailed", page[r],
                       NoResponse, NoResponse)

\* the position after page.WaitNavigation and page.WaitIdle
AfterLoad == IF OptimizeResources THEN "optimize" ELSE "html"

\* page.WaitNavigation(DOMContentLoaded), then page.WaitIdle(2s), whose error
\* is only logged
WaitNavigation(r) ==
    /\ pc[r] = "waitNavigation"
    /\ \/ PipelineStep(r, upstreamCalls, "defers", "loadFailed", page[r],
                       NoResponse, NoResponse)
       \/ PipelineStep(r, upstreamCalls, AfterLoad, "", page[r], NoResponse, NoResponse)

\* an optimizer whose error ends the request
AfterOptimizeFatal(ok) == IF ok THEN "html" ELSE "defers"

\* if err := h.optimizePage(page); err != nil { h.logger.Error(...) }
AfterOptimize(ok) == "html"

\* if h.OptimizeResources { err = h.optimizePage(page) }
Optimize(r) ==
    /\ pc[r] = "optimize"
    /\ \E ok \in BOOLEAN :
          PipelineStep(r, upstreamCalls, AfterOptimize(ok),
                       IF AfterOptimize(ok) = "html" THEN "" ELSE "optimizeFailed",
                       Page(page[r].jsDisabled, IF ok THEN "ok" ELSE "failed"),
                       NoResponse, NoResponse)

\* content, err := page.HTML(); responseHeaders.Set("Content-Type", ...)
HTML(r) ==
    /\ pc[r] = "html"
    /\ \/ PipelineStep(r, upstreamCalls, "defers", "loadFailed", page[r],
                       NoResponse, NoResponse)
       \/ \E status \in NavigationStatuses :
             PipelineStep(r, upstreamCalls, "store", "", page[r],
                          RenderedResponse(status, PageContent(upstreamCalls)),
                          NoResponse)

\* page.Eval(fetchScript) and the reading of its result
Fetch(r) ==
    /\ pc[r] = "fetch"
    /\ \/ PipelineStep(r, upstreamCalls, "defers", "fetchFailed", page[r],
                       NoResponse, NoResponse)
       \/ PipelineStep(r, upstreamCalls, "defers", "fetchError", page[r],
                       NoResponse, FetchErrorResponse)
       \/ \E res \in FetchResults :
             PipelineStep(r, upstreamCalls + 1, "store", "", page[r],
                          Response(res.status, res.headers,
                                   PageContent(upstreamCalls + 1)),
                          NoResponse)

NextPipeline ==
    \/ Provision
    \/ \E r \in Reqs : \E rq \in RequestInputs : Arrive(r, rq)
    \/ \E r \in Reqs : CacheCheck(r)
    \/ \E r \in Reqs : GetBrowser(r)
    \/ \E r \in Reqs : Configure(r)
    \/ \E r \in Reqs : Hang(r)
    \/ \E r \in Reqs : DeadlineExpires(r)
    \/ \E r \in Reqs : Navigate(r)
    \/ \E r \in Reqs : WaitNavigation(r)
    \/ \E r \in Reqs : Optimize(r)
    \/ \E r \in Reqs : HTML(r)
    \/ \E r \in Reqs : Fetch(r)
    \/ \E r \in Reqs : Store(r)
    \/ \E r \in Reqs : RunDefers(r)
    \/ \E b \in BrowserIds : CloseTask(b)

SpecPipeline == InitPipeline /\ [][NextPipeline]_vars

\* every return of a session operation is processed, the deferred calls run and
\* the timer of ctx fires; nothing makes a session operation return
FairPipeline ==
    /\ SpecPipeline
    /\ \A r \in Reqs :
          /\ WF_vars(Configure(r))
          /\ WF_vars(DeadlineExpires(r))
          /\ WF_vars(Navigate(r))
          /\ WF_vars(WaitNavigation(r))
          /\ WF_vars(Optimize(r))
          /\ WF_vars(HTML(r))
          /\ WF_vars(Fetch(r))
          /\ WF_vars(Store(r))
          /\ WF_vars(RunDefers(r))

C18_OptimizerNeverFatal ==
    /\ [][\A r \in Reqs :
            (pc[r] = "optimize" /\ pc'[r] \notin {"optimize", BlockedIn("optimize")}) =>
               /\ pc'[r] = "html"
               /\ exitPath'[r] = ""
               /\ response'[r] = response[r]
        ]_vars
    /\ [](\A r \in Reqs :
            (req[r].Method = "GET" /\ Rendered(r)) => resp[r].StatusCode = 200)

\* C18 witness: with optimize_resources set, a GET whose optimizePage call failed
\* has been answered 200 with the document
C18_Witness ==
    \E r \in Reqs :
        /\ OptimizeResources
        /\ req[r].Method = "GET"
        /\ page[r].optimized = "failed"
        /\ pc[r] = "done" /\ exitPath[r] = "success"
        /\ resp[r].StatusCode = 200
        /\ resp[r].Content = PageContent(1)

\* the positions of an invocation that has passed the "Disable JavaScript" test
Configured(r) == pc[r] \in CtxLabels \cup {"store"}

\* C19: enable_js is honoured: with enable_js false the flag is false after
\* Provision and every request takes the disable-script branch; with enable_js
\* true or unset the flag is true and no request takes it
C19_EnableJSHonoured ==
    /\ provisioned => (EnableJS = (enable_js # "false"))
    /\ \A r \in Reqs : Configured(r) => (page[r].jsDisabled = (enable_js = "false"))

----------------------------------------------------------------------------
(* handleError *)

\* the errors a chain can hold: the Err* variables, context.DeadlineExceeded and
\* an error of no known kind
ErrorValues == Sentinels \cup {"context.DeadlineExceeded", "other"}

\* err.Error() of one error value
ErrorText(e) ==
    CASE e = "ErrBrowserUnavailable" -> "browser unavailable"
      [] e = "ErrPageCreationFailed" -> "page creation failed"
      [] e = "ErrNavigationFailed" -> "navigation failed"
      [] e = "ErrTimeout" -> "operation timed out"
      [] e = "ErrRequestFailed" -> "request failed"
      [] e = "ErrResponseProcessing" -> "response processing failed"
      [] e = "context.DeadlineExceeded" -> "context deadline exceeded"
      [] e \in {"target closed", "net::ERR_CONNECTION_REFUSED", "page crashed"} -> e
      [] OTHER -> "error"

RECURSIVE ChainText(_)
\* err.Error() of an error that wraps the rest of its chain with %w
ChainText(chain) ==
    IF Len(chain) = 1 THEN ErrorText(chain[1])
    ELSE ErrorText(chain[1]) \o ": " \o ChainText(Tail(chain))

\* the errors passed to handleError: an error value, or one wrapping another
ErrorInputs ==
    {<<e>> : e \in ErrorValues} \cup {<<e, f>> : e \in {"other"}, f \in ErrorValues}
    \cup {<<"ErrNavigationFailed", "context.DeadlineExceeded">>}

\* the status codes handleError is called with
ErrorStatuses == {500, 504}

\* errors.Is(err, target)
ErrorsIs(chain, target) == \E i \in 1 .. Len(chain) : chain[i] = target

\* the switch of handleError
ErrorTypeOf(chain) ==
    IF ErrorsIs(chain, "ErrBrowserUnavailable") THEN "browser_unavailable"
    ELSE IF ErrorsIs(chain, "ErrPageCreationFailed") THEN "page_creation_failed"
    ELSE IF ErrorsIs(chain, "ErrNavigationFailed") THEN "navigation_failed"
    ELSE IF ErrorsIs(chain, "ErrTimeout") THEN "timeout"
    ELSE IF ErrorsIs(chain, "ErrRequestFailed") THEN "request_failed"
    ELSE IF ErrorsIs(chain, "ErrResponseProcessing") THEN "response_processing"
    ELSE IF ErrorsIs(chain, "context.DeadlineExceeded") THEN "deadline_exceeded"
    ELSE "unknown"

\* err after the switch: the last case assigns err = ErrTimeout
ErrorAfterSwitch(chain) ==
    IF ErrorTypeOf(chain) = "deadline_exceeded" THEN <<"ErrTimeout">> ELSE chain

\* fmt.Sprintf("%d", status) for the statuses used
StatusText(status) == IF status = 500 THEN "500" ELSE "504"

\* json.NewEncoder(w).Encode(errorResponse), without request_id and timestamp
ErrorBody(e) ==
    "{\"error\":\"" \o e.Error \o "\",\"status\":" \o StatusText(e.Status)
    \o ",\"description\":\"" \o e.Description \o "\"}"

\* handleError(w, r, err, status)
handleError(r, chain, status) ==
    /\ err[r] = NoError
    /\ err' = [err EXCEPT ![r] = chain]
    /\ browserErrorsTotal' = [browserErrorsTotal EXCEPT ![ErrorTypeOf(chain)] = @ + 1]
    /\ LET e == ErrorResponse(ErrorTypeOf(chain), status,
                              ChainText(ErrorAfterSwitch(chain)))
       IN /\ errorResponse' = [errorResponse EXCEPT ![r] = e]
          /\ resp' = [resp EXCEPT ![r] =
                Response(status,
                         HeaderSet(HeaderSet(EmptyHeader, "Content-Type",
                                             "application/json"),
                                   "X-Error-Type", ErrorTypeOf(chain)),
                         ErrorBody(e))]
    /\ UNCHANGED <<cfgVars, pipeVars, extraVars>>
    /\ UNCHANGED <<ForwardCookies, poolVars, cache, now, upstreamCalls, pc, req, key,
                   browser, defers, response, exitPath, released>>

NextError ==
    \E r \in Reqs : \E chain \in ErrorInputs : \E status \in ErrorStatuses :
        handleError(r, chain, status)

SpecError == Init /\ [][NextError]_vars

\* the labels of the six kinds of the taxonomy
SixKinds ==
    {"browser_unavailable", "page_creation_failed", "navigation_failed", "timeout",
     "request_failed", "response_processing"}

\* C20: for every error passed to handleError the kind written to the body and
\* counted is one of the six kinds, and a deadline-exceeded error is written and
\* counted as timeout
C20_ClosedTaxonomy ==
    /\ \A r \in Reqs :
          err[r] # NoError =>
             /\ errorResponse[r].Error \in SixKinds
             /\ err[r] = <<"context.DeadlineExceeded">> =>
                   errorResponse[r].Error = "timeout"
    /\ \A l \in ErrorLabels \ SixKinds : browserErrorsTotal[l] = 0

----------------------------------------------------------------------------
(* The errors ServeHTTP returns *)

\* the exit paths of ServeHTTP that return an error made by fmt.Errorf
ErrorPaths ==
    {"acquireFailed", "pageCreationFailed", "configurationFailed", "navigationFailed",
     "loadFailed", "fetchFailed", "writeFailed"}

\* the error ServeHTTP returns on an exit path, as its Unwrap chain: fmt.Errorf with
\* %v wraps nothing, and the fetchError and methodNotAllowed paths return the result
\* of w.Write
ReturnedError(path) == IF path \in ErrorPaths THEN <<"other">> ELSE NoError

\* the label handleError would give to each failure of the pipeline
KindOfFailure(path) ==
    CASE path = "acquireFailed" -> "browser_unavailable"
      [] path = "pageCreationFailed" -> "page_creation_failed"
      [] path = "navigationFailed" -> "navigation_failed"
      [] path \in {"fetchFailed", "fetchError"} -> "request_failed"
      [] OTHER -> ""

\* C21: a request that has returned through an acquire, page-creation, navigation or
\* fetch failure returned an error of the corresponding kind and was answered with
\* the uniform error body of that kind, after releasing the session it had
C21_FailuresClassified ==
    \A r \in Reqs :
        (pc[r] = "done" /\ KindOfFailure(exitPath[r]) # "") =>
            /\ ReturnedError(exitPath[r]) # NoError
            /\ ErrorTypeOf(ReturnedError(exitPath[r])) = KindOfFailure(exitPath[r])
            /\ resp[r].Content =
                  ErrorBody(ErrorResponse(KindOfFailure(exitPath[r]),
                                          resp[r].StatusCode,
                                          ChainText(ReturnedError(exitPath[r]))))
            /\ released[r] = (IF Acquired(r) THEN 1 ELSE 0)

----------------------------------------------------------------------------
(* The health surface: handleHealthCheck *)

\* the module with a pool of 0 to MaxCreated running browsers and no request in
\* progress (neither getHealthStatus nor checkBrowsersHealth reads h.MaxBrowsers)
InitHealth ==
    /\ ForwardCookies = FALSE
    /\ enable_js = "unset"
    /\ EnableJS = TRUE
    /\ OptimizeResources = FALSE
    /\ provisioned = TRUE
    /\ PipelineIdle
    /\ ErrorsIdle
    /\ ExtrasIdle
    /\ created \in 0 .. MaxCreated
    /\ browserPool = [i \in 1 .. created |-> i]
    /\ browserState = [b \in BrowserIds |-> IF b <= created THEN "open" ELSE "none"]
    /\ browserCookies = [b \in BrowserIds |-> {}]
    /\ cache = << >>
    /\ now = 0
    /\ upstreamCalls = 0
    /\ pc = [r \in Reqs |-> "idle"]
    /\ req = [r \in Reqs |-> NoRequest]
    /\ key = [r \in Reqs |-> NoKey]
    /\ browser = [r \in Reqs |-> NilBrowser]
    /\ defers = [r \in Reqs |-> << >>]
    /\ response = [r \in Reqs |-> NoResponse]
    /\ resp = [r \in Reqs |-> NoResponse]
    /\ exitPath = [r \in Reqs |-> ""]
    /\ released = [r \in Reqs |-> 0]

\* if status.Status != "healthy" { w.WriteHeader(http.StatusServiceUnavailable) }
HealthCode(status) == IF status # "healthy" THEN 503 ELSE 200

\* handleHealthCheck: status := h.getHealthStatus(), which reads the pool size, runs
\* checkBrowsersHealth and derives the overall status, then the status code
handleHealthCheck ==
    /\ \E probe \in [1 .. Len(browserPool) -> BOOLEAN],
          launch \in [1 .. Len(browserPool) -> BOOLEAN] :
          LET st == HealthPass(1, [pool |-> browserPool, bstate |-> browserState,
                                   created |-> created, healthy |-> 0,
                                   unhealthy |-> 0],
                               probe, launch)
              status == OverallStatus(st.healthy, st.unhealthy)
          IN /\ browserPool' = st.pool
             /\ browserState' = st.bstate
             /\ created' = st.created
             /\ health' = HealthStatus(status, Len(browserPool), st.healthy,
                                       st.unhealthy, now, HealthCode(status))
    /\ UNCHANGED <<cfgVars, pipeVars, errVars, browserPoolLock, task, cacheLock, lateVars>>
    /\ UNCHANGED <<ForwardCookies, browserCookies, cache, now, upstreamCalls, reqVars>>

\* health queries, and the time between them
NextHealth ==
    \/ handleHealthCheck
    \/ Tick

SpecHealth == InitHealth /\ [][NextHealth]_vars

\* C22: the status of a health query follows from the counts of its pass: no failed
\* probe gives healthy, failed and passed probes give degraded, failed probes only
\* give unhealthy; every pooled session is counted once; and the answer is 503
\* exactly when the status is not healthy
C22_StatusFromCounts ==
    health # NoHealth =>
        /\ health.HealthyCount + health.UnhealthyCount = health.Size
        /\ health.UnhealthyCount = 0 => health.Status = "healthy"
        /\ (health.HealthyCount > 0 /\ health.UnhealthyCount > 0) =>
              health.Status = "degraded"
        /\ (health.HealthyCount = 0 /\ health.UnhealthyCount > 0) =>
              health.Status = "unhealthy"
        /\ (health.Code = 503) <=> (health.Status # "healthy")
        /\ health.Code \in {200, 503}

\* C22 witness: a pass over two sessions found one healthy and one not, and the
\* query was answered degraded with 503
C22_Witness ==
    /\ health.Status = "degraded"
    /\ health.HealthyCount = 1 /\ health.UnhealthyCount = 1
    /\ health.Code = 503

----------------------------------------------------------------------------
(* The cache at its high-water mark: setCachedResponse on a full map *)

\* the number of distinct new requests whose responses are stored
MaxStores == 3

\* the i-th of the GETs whose responses fill the cache
FilledRequest(i) == Request("GET", "/p" \o ToString(i), "", NoHeaders, <<>>)

\* the j-th of the GETs whose responses are stored next
NewRequest(j) == Request("GET", "/new" \o ToString(j), "", NoHeaders, <<>>)

\* the headers of a rendered GET
HtmlHeaders == HeaderSet(EmptyHeader, "Content-Type", "text/html; charset=utf-8")

\* the map after the responses of HighWaterMark distinct GETs were stored at time 0
FilledCache ==
    [k \in {getCacheKey(FilledRequest(i)) : i \in 1 .. HighWaterMark} |->
        CacheEntry(PageContent(1), HtmlHeaders, 200, CacheTTL)]

\* the module after HighWaterMark distinct GETs were rendered and answered at time 0
InitCache ==
    /\ ForwardCookies = FALSE
    /\ enable_js = "unset"
    /\ EnableJS = TRUE
    /\ OptimizeResources = FALSE
    /\ provisioned = TRUE
    /\ PipelineIdle
    /\ ErrorsIdle
    /\ ExtrasIdle
    /\ created = 1
    /\ browserPool = <<1>>
    /\ browserState = [b \in BrowserIds |-> IF b = 1 THEN "open" ELSE "none"]
    /\ browserCookies = [b \in BrowserIds |-> {}]
    /\ cache = FilledCache
    /\ now = 0
    /\ upstreamCalls = 0
    /\ pc = [r \in Reqs |-> "store"]
    /\ req = [r \in Reqs |-> NoRequest]
    /\ key = [r \in Reqs |-> NoKey]
    /\ browser = [r \in Reqs |-> NilBrowser]
    /\ defers = [r \in Reqs |-> << >>]
    /\ response = [r \in Reqs |-> NoResponse]
    /\ resp = [r \in Reqs |-> NoResponse]
    /\ exitPath = [r \in Reqs |-> ""]
    /\ released = [r \in Reqs |-> 0]

\* h.setCachedResponse(r, content, headers, 200) called by goroutine r for request rq
SetCached(r, rq) ==
    /\ req' = [req EXCEPT ![r] = rq]
    /\ key' = [key EXCEPT ![r] = getCacheKey(rq)]
    /\ cache' = setCachedResponse(cache, rq, PageContent(1), HtmlHeaders, 200, now)
    /\ UNCHANGED moreVars
    /\ UNCHANGED <<ForwardCookies, poolVars, now, upstreamCalls, pc, browser, defers,
                   response, resp, exitPath, released>>

NextCache ==
    \/ \E r \in Reqs : \E j \in 1 .. MaxStores : SetCached(r, NewRequest(j))
    \/ Tick

SpecCache == InitCache /\ [][NextCache]_vars

\* the population the map has after a store that found it above the mark and swept
\* every entry away
CacheBound == HighWaterMark + 1

\* C23: the number of entries of the cache never exceeds the bound that follows
\* from the high-water mark, whatever distinct responses are stored and whether or
\* not any stored entry has expired
C23_CacheBounded == Cardinality(DOMAIN cache) <= CacheBound

\* C30: a store that leaves more than HighWaterMark entries in the map has swept
\* it: when it returns, no entry whose expiry is earlier than the current time is
\* left and the entry just inserted is present
C30_SweptAboveMark ==
    [][\A r \in Reqs : \A j \in 1 .. MaxStores :
          (SetCached(r, NewRequest(j)) /\ Cardinality(DOMAIN cache') > HighWaterMark) =>
             /\ \A k \in DOMAIN cache' : ~(cache'[k].Expiration < now)
             /\ getCacheKey(NewRequest(j)) \in DOMAIN cache'
      ]_vars

----------------------------------------------------------------------------
(* h.browserPoolLock: getBrowser, returnBrowser, checkBrowsersHealth and Cleanup
   with the calls to the browser engine as steps of their own *)

\* GET /a
LockRequestInputs == { Request("GET", "/a", "", NoHeaders, <<>>) }

\* a step that changes the lock, positions of invocation r and nothing else
LockStep(r, holder, nextPc) ==
    /\ browserPoolLock' = holder
    /\ pc' = [pc EXCEPT ![r] = nextPc]
    /\ UNCHANGED <<cfgVars, pipeVars, errVars, health, task, cacheLock, lateVars>>
    /\ UNCHANGED <<ForwardCookies, poolVars, cache, now, upstreamCalls, req, key,
                   browser, defers, response, resp, exitPath, released>>

\* getBrowser with a browser in the pool: Lock, take the top browser, Unlock
GetPooledBrowser(r) ==
    /\ browserPoolLock = NoHolder
    /\ Len(browserPool) > 0
    /\ GetBrowser(r)

\* getBrowser with the pool empty: Lock, then the call h.createBrowser() starts
CreateBrowserCall(r) ==
    /\ pc[r] = "getBrowser"
    /\ browserPoolLock = NoHolder
    /\ Len(browserPool) = 0
    /\ LockStep(r, Request_(r), "createBrowser")

\* h.createBrowser() returns to getBrowser, the deferred Unlock runs, and ServeHTTP
\* goes on to browser.Page
CreateBrowserReturn(r) ==
    /\ pc[r] = "createBrowser"
    /\ browserPoolLock' = NoHolder
    /\ \/ /\ created < MaxCreated
          /\ created' = created + 1
          /\ browserState' = [browserState EXCEPT ![created + 1] = "open"]
          /\ \E pageOk \in BOOLEAN : AfterAcquire(r, created + 1, pageOk)
       \/ /\ exitPath' = [exitPath EXCEPT ![r] = "acquireFailed"]
          /\ pc' = [pc EXCEPT ![r] = "done"]
          /\ UNCHANGED <<req, key, browserState, created, browser, defers>>
    /\ UNCHANGED <<cfgVars, pipeVars, errVars, health, task, cacheLock, lateVars>>
    /\ UNCHANGED <<ForwardCookies, browserPool, browserCookies, cache, now,
                   upstreamCalls, response, resp, released>>

\* the deferred calls of ServeHTTP: returnBrowser takes the lock for its duration
ReturnBrowser(r) ==
    /\ browserPoolLock = NoHolder
    /\ RunDefers(r)

\* a step of a task that changes the lock and the position of the task only
TaskStep(t, holder, position) ==
    /\ browserPoolLock' = holder
    /\ task' = [task EXCEPT ![t] = position]
    /\ UNCHANGED <<cfgVars, pipeVars, errVars, health, cacheLock, lateVars>>
    /\ UNCHANGED <<ForwardCookies, poolVars, cache, now, upstreamCalls, reqVars>>

\* checkBrowsersHealth: Lock, then the first call to the engine (browser.Page of
\* isBrowserHealthy) starts; with an empty pool the loop body never runs
HealthPassCall ==
    /\ task["checkBrowsersHealth"] = "idle"
    /\ browserPoolLock = NoHolder
    /\ TaskStep("checkBrowsersHealth", Task("checkBrowsersHealth"),
                IF Len(browserPool) > 0 THEN "probing" ELSE "returning")

\* the probes, the browser.Close and createBrowser calls of the pass return, and the
\* deferred Unlock runs
HealthPassReturn ==
    /\ task["checkBrowsersHealth"] \in {"probing", "returning"}
    /\ browserPoolLock' = NoHolder
    /\ task' = [task EXCEPT !["checkBrowsersHealth"] = "idle"]
    /\ \E probe \in [1 .. Len(browserPool) -> BOOLEAN],
          launch \in [1 .. Len(browserPool) -> BOOLEAN] :
          LET st == HealthPass(1, [pool |-> browserPool, bstate |-> browserState,
                                   created |-> created, healthy |-> 0,
                                   unhealthy |-> 0],
                               probe, launch)
          IN /\ browserPool' = st.pool
             /\ browserState' = st.bstate
             /\ created' = st.created
    /\ UNCHANGED <<cfgVars, pipeVars, errVars, health, cacheLock, lateVars>>
    /\ UNCHANGED <<ForwardCookies, browserCookies, cache, now, upstreamCalls, reqVars>>

\* Cleanup: Lock, then the first browser.Close() starts
CleanupCall ==
    /\ task["Cleanup"] = "idle"
    /\ browserPoolLock = NoHolder
    /\ TaskStep("Cleanup", Task("Cleanup"),
                IF Len(browserPool) > 0 THEN "closing" ELSE "returning")

\* the browser.Close() calls of Cleanup return, the pool is emptied and the deferred
\* Unlock runs
CleanupReturn ==
    /\ task["Cleanup"] \in {"closing", "returning"}
    /\ browserPoolLock' = NoHolder
    /\ task' = [task EXCEPT !["Cleanup"] = "done"]
    /\ browserState' = CloseAll(browserState, browserPool)
    /\ browserPool' = << >>
    /\ UNCHANGED <<cfgVars, pipeVars, errVars, health, cacheLock, lateVars>>
    /\ UNCHANGED <<ForwardCookies, browserCookies, created, cache, now, upstreamCalls,
                   reqVars>>

NextLock ==
    \/ \E r \in Reqs : \E rq \in LockRequestInputs : Arrive(r, rq)
    \/ \E r \in Reqs : CacheCheck(r)
    \/ \E r \in Reqs : GetPooledBrowser(r)
    \/ \E r \in Reqs : CreateBrowserCall(r)
    \/ \E r \in Reqs : CreateBrowserReturn(r)
    \/ \E r \in Reqs : ExecuteConfigFail(r)
    \/ \E r \in Reqs : ExecuteGet(r)
    \/ \E r \in Reqs : Store(r)
    \/ \E r \in Reqs : ReturnBrowser(r)
    \/ \E b \in BrowserIds : CloseTask(b)
    \/ HealthPassCall
    \/ HealthPassReturn
    \/ CleanupCall
    \/ CleanupReturn

SpecLock == Init /\ [][NextLock]_vars

\* a call to the browser engine is in progress in invocation r or in task t
InEngineCall(r) == pc[r] = "createBrowser"

TaskInEngineCall(t) == task[t] \in {"probing", "closing"}

\* C24: no call that waits for the browser engine (createBrowser in an acquire on an
\* empty pool, the browser.Close of Cleanup, the probe, close and creation of a
\* health pass) is in progress while its caller holds h.browserPoolLock
C24_NoEngineCallUnderLock ==
    /\ \A r \in Reqs : InEngineCall(r) => browserPoolLock # Request_(r)
    /\ \A t \in Tasks : TaskInEngineCall(t) => browserPoolLock # Task(t)

----------------------------------------------------------------------------
(* h.cacheLock: getCachedResponse and setCachedResponse statement by statement *)

\* a step of invocation r that changes the lock, the map, its position and what it
\* wrote, and nothing else
CacheLockStep(r, lock, c, nextPc, path, written) ==
    /\ cacheLock' = lock
    /\ cache' = c
    /\ pc' = [pc EXCEPT ![r] = nextPc]
    /\ exitPath' = [exitPath EXCEPT ![r] = path]
    /\ resp' = [resp EXCEPT ![r] = written]
    /\ UNCHANGED <<cfgVars, pipeVars, errVars, health, browserPoolLock, task, lateVars>>
    /\ UNCHANGED <<ForwardCookies, poolVars, now, upstreamCalls, req, key, browser,
                   defers, response, released>>

\* the lock after r.RUnlock()
RUnlocked(r) == RWMutex(cacheLock.readers \ {r}, cacheLock.writer)

\* getCachedResponse: key := h.getCacheKey(r); h.cacheLock.RLock()
LookupRLock(r) ==
    /\ pc[r] = "cacheCheck"
    /\ CacheTTL > 0
    /\ cacheLock.writer = NoHolder
    /\ CacheLockStep(r, RWMutex(cacheLock.readers \cup {r}, cacheLock.writer), cache,
                     "lookup", exitPath[r], resp[r])

\* if entry, ok := h.cache[key]; ok { if time.Now().Before(entry.Expiration)
\* { return ..., true } ... } return ..., false: the two returns, each with the
\* deferred RUnlock, and the branch that goes on to the delete
LookupRead(r) ==
    /\ pc[r] = "lookup"
    /\ LET k == getCacheKey(req[r])
       IN IF k \notin DOMAIN cache
          THEN CacheLockStep(r, RUnlocked(r), cache, "getBrowser", exitPath[r], resp[r])
          ELSE IF EntryFresh(now, cache[k])
               THEN CacheLockStep(r, RUnlocked(r), cache, "done", "cacheHit",
                                  Response(cache[k].StatusCode, cache[k].Headers,
                                           cache[k].Content))
               ELSE CacheLockStep(r, cacheLock, cache, "lookupDelete", exitPath[r],
                                  resp[r])

\* the map without key k
MapDelete(c, k) == [x \in DOMAIN c \ {k} |-> c[x]]

\* delete(h.cache, key), then return ..., false with the deferred RUnlock.  Run
\* while another invocation is inside RLock, the delete is a concurrent map read and
\* map write: it either completes or the runtime ends the process with a fatal
\* error
LookupDelete(r) ==
    /\ pc[r] = "lookupDelete"
    /\ \/ CacheLockStep(r, RUnlocked(r), MapDelete(cache, getCacheKey(req[r])),
                        "getBrowser", exitPath[r], resp[r])
       \/ /\ cacheLock.readers \ {r} # {}
          /\ pc' = [q \in Reqs |-> "fatal"]
          /\ UNCHANGED <<cfgVars, pipeVars, errVars, extraVars>>
          /\ UNCHANGED <<ForwardCookies, poolVars, cache, now, upstreamCalls, req, key,
                         browser, defers, response, resp, exitPath, released>>

\* setCachedResponse: key := h.getCacheKey(r); h.cacheLock.Lock()
StoreLock(r) ==
    /\ pc[r] = "store"
    /\ CacheTTL > 0
    /\ cacheLock = RWMutex({}, NoHolder)
    /\ CacheLockStep(r, RWMutex({}, Request_(r)), cache, "store", exitPath[r], resp[r])

\* the sweep and the insertion of setCachedResponse, made by the holder of Lock
StoreWrite(r) ==
    /\ cacheLock.writer = Request_(r)
    /\ Store(r)

\* the deferred h.cacheLock.Unlock() of setCachedResponse
StoreUnlock(r) ==
    /\ pc[r] = "defers"
    /\ cacheLock.writer = Request_(r)
    /\ CacheLockStep(r, RWMutex(cacheLock.readers, NoHolder), cache, "defers",
                     exitPath[r], resp[r])

\* ServeHTTP returns after setCachedResponse has
ReturnAfterStore(r) ==
    /\ cacheLock.writer # Request_(r)
    /\ RunDefers(r)

NextCacheLock ==
    \/ \E r \in Reqs : \E rq \in LockRequestInputs : Arrive(r, rq)
    \/ \E r \in Reqs : LookupRLock(r)
    \/ \E r \in Reqs : LookupRead(r)
    \/ \E r \in Reqs : LookupDelete(r)
    \/ \E r \in Reqs : GetBrowser(r)
    \/ \E r \in Reqs : ExecuteConfigFail(r)
    \/ \E r \in Reqs : ExecuteGet(r)
    \/ \E r \in Reqs : StoreLock(r)
    \/ \E r \in Reqs : StoreWrite(r)
    \/ \E r \in Reqs : StoreUnlock(r)
    \/ \E r \in Reqs : ReturnAfterStore(r)
    \/ \E b \in BrowserIds : CloseTask(b)
    \/ Tick

SpecCacheLock == Init /\ [][NextCacheLock]_vars

\* C25: every step that changes the cache map (insert, overwrite, delete of an
\* expired entry on lookup, sweep) is taken by the holder of h.cacheLock.Lock(), with
\* no invocation inside RLock; a lookup holding RLock leaves the map as it is
C25_MutationsExclusive ==
    [][cache' # cache =>
          /\ cacheLock.writer # NoHolder
          /\ cacheLock.readers = {}
      ]_vars

----------------------------------------------------------------------------
(* Claims about the sessions a health pass closes *)

\* C26: a session closed by a health pass whose replacement could not be created is
\* not left in the pool: no closed session is a member of the pool, and no
\* invocation holds a session that was closed before it acquired it
C26_ClosedSlotEmptied ==
    /\ \A b \in BrowserIds : browserState[b] = "closed" => ~Pooled(b)
    /\ \A r \in Reqs : Holding(r) => browserState[browser[r]] # "closed"

----------------------------------------------------------------------------
(* The background monitor: monitorLoop / collectBrowserMetrics /
   collectMetricsFromBrowser *)

\* the value at which the model stops counting a label of browserErrorsTotal
MaxErrors == 2

\* Inc() on a counter, counted up to MaxErrors
Inc(n) == IF n < MaxErrors THEN n + 1 ELSE n

\* the process of a pooled browser dies: from then on it fails every probe
Crash(b) ==
    /\ Pooled(b)
    /\ browserState[b] = "open"
    /\ browserState' = [browserState EXCEPT ![b] = "crashed"]
    /\ UNCHANGED moreVars
    /\ UNCHANGED <<ForwardCookies, browserPool, browserCookies, created, cache, now,
                   upstreamCalls, reqVars>>

RECURSIVE Members(_)
\* the browsers of a pool, as a set
Members(pool) == IF pool = << >> THEN {} ELSE {Head(pool)} \cup Members(Tail(pool))

\* case <-ticker.C: m.collectBrowserMetrics(): copy the pool under the lock, set
\* browserPoolSize, start one collectMetricsFromBrowser goroutine per browser
\* (a new cycle is taken once the goroutines of the last one have returned)
collectBrowserMetrics ==
    /\ monitoring = {}
    /\ monitoring' = Members(browserPool)
    /\ gauges' = Gauges(Len(browserPool), gauges.browserResourcesUsed)
    /\ UNCHANGED <<cfgVars, pipeVars, errVars, health, browserPoolLock, task, cacheLock,
                   returned, heap>>
    /\ UNCHANGED <<ForwardCookies, poolVars, cache, now, upstreamCalls, reqVars>>

\* collectMetricsFromBrowser(browser): browser.Page fails, or System.getProcessInfo
\* fails, or the resource gauges are set; the goroutine returns in each case
collectMetricsFromBrowser(b) ==
    /\ b \in monitoring
    /\ monitoring' = monitoring \ {b}
    /\ \/ /\ browserErrorsTotal' = [browserErrorsTotal EXCEPT !["create_page"] = Inc(@)]
          /\ gauges' = gauges
       \/ /\ browserState[b] = "open"
          /\ browserErrorsTotal' =
                [browserErrorsTotal EXCEPT !["get_process_info"] = Inc(@)]
          /\ gauges' = gauges
       \/ /\ browserState[b] = "open"
          /\ gauges' = Gauges(gauges.browserPoolSize, TRUE)
          /\ browserErrorsTotal' = browserErrorsTotal
    /\ UNCHANGED <<cfgVars, pipeVars, err, errorResponse, health, browserPoolLock, task,
                   cacheLock, returned, heap>>
    /\ UNCHANGED <<ForwardCookies, poolVars, cache, now, upstreamCalls, reqVars>>

\* the monitor on its own: no request and no health query
NextMonitor ==
    \/ \E b \in BrowserIds : Crash(b)
    \/ collectBrowserMetrics
    \/ \E b \in BrowserIds : collectMetricsFromBrowser(b)
    \/ Tick

SpecMonitor == Init /\ [][NextMonitor]_vars

\* the ticker fires again and again and every started goroutine runs
FairMonitor ==
    /\ SpecMonitor
    /\ WF_vars(collectBrowserMetrics)
    /\ \A b \in BrowserIds : WF_vars(collectMetricsFromBrowser(b))

\* C27: with the monitor running and neither a request nor a health query, a pooled
\* session whose browser has died is eventually closed and out of the pool, replaced
\* by the periodic loop
C27_MonitorReplacesUnhealthy ==
    \A b \in BrowserIds :
        (Pooled(b) /\ browserState[b] = "crashed")
            ~> (browserState[b] = "closed" /\ ~Pooled(b))

----------------------------------------------------------------------------
(* handleBrowserError and recoverBrowser *)

\* the errors of the browser engine, named by their text
BrowserErrorValues ==
    {"context.DeadlineExceeded", "target closed", "net::ERR_CONNECTION_REFUSED",
     "page crashed", "other"}

\* the errors passed to handleBrowserError: an engine error, or one wrapping another
BrowserErrorInputs ==
    {<<e>> : e \in BrowserErrorValues}
    \cup {<<"other", "page crashed">>, <<"target closed", "page crashed">>}

\* strings.Contains(err.Error(), phrase): the text of a chain is the texts of its
\* errors joined by ": ", and no phrase spans two of them
TextContains(chain, phrase) ==
    \E i \in 1 .. Len(chain) :
        IF phrase = "net::ERR" THEN chain[i] = "net::ERR_CONNECTION_REFUSED"
        ELSE ErrorText(chain[i]) = phrase

\* the case of the switch of handleBrowserError
BrowserErrorCase(chain) ==
    IF TextContains(chain, "context deadline exceeded") THEN "timeout"
    ELSE IF TextContains(chain, "target closed") THEN "targetClosed"
    ELSE IF TextContains(chain, "net::ERR") THEN "network"
    ELSE IF TextContains(chain, "page crashed") THEN "crashed"
    ELSE "default"

\* the error handleBrowserError returns, as its Unwrap chain: fmt.Errorf wraps the
\* Err* value given to %w, and the default case returns err itself
BrowserErrorResult(chain) ==
    CASE BrowserErrorCase(chain) = "timeout" -> <<"ErrTimeout">>
      [] BrowserErrorCase(chain) \in {"targetClosed", "network", "crashed"} ->
            <<"ErrNavigationFailed">>
      [] OTHER -> chain

\* the error handleBrowserError returns when recoverBrowser has returned from the
\* given position
ResultAfterRecovery(chain, position) == BrowserErrorResult(chain)

\* the calls of recoverBrowser that wait for the browser: browser.Pages (and the
\* page.Close calls), browser.Page(about:blank), page.Context(ctx).Eval("1+1")
RecoverPositions == {"recover.Pages", "recover.Page", "recover.Eval"}

\* two invocations, each holding a browser, about to report an engine error
InitRecover ==
    /\ ForwardCookies = FALSE
    /\ enable_js = "unset"
    /\ EnableJS = TRUE
    /\ OptimizeResources = FALSE
    /\ provisioned = TRUE
    /\ PipelineIdle
    /\ ErrorsIdle
    /\ ExtrasIdle
    /\ created = Cardinality(Reqs)
    /\ browserPool = << >>
    /\ browserState = [b \in BrowserIds |-> IF b \in Reqs THEN "open" ELSE "none"]
    /\ browserCookies = [b \in BrowserIds |-> {}]
    /\ cache = << >>
    /\ now = 0
    /\ upstreamCalls = 0
    /\ pc = [r \in Reqs |-> "execute"]
    /\ req = [r \in Reqs |-> Request("GET", "/a", "", NoHeaders, <<>>)]
    /\ key = [r \in Reqs |-> NoKey]
    /\ browser = [r \in Reqs |-> r]
    /\ defers = [r \in Reqs |-> <<"page.Close">> \o DeferAfterAcquire]
    /\ response = [r \in Reqs |-> NoResponse]
    /\ resp = [r \in Reqs |-> NoResponse]
    /\ exitPath = [r \in Reqs |-> ""]
    /\ released = [r \in Reqs |-> 0]

\* a step of handleBrowserError or recoverBrowser in invocation r
RecoverStep(r, chain, nextPc, result) ==
    /\ err' = [err EXCEPT ![r] = chain]
    /\ pc' = [pc EXCEPT ![r] = nextPc]
    /\ returned' = [returned EXCEPT ![r] = result]
    /\ UNCHANGED <<cfgVars, pipeVars, errorResponse, browserErrorsTotal, health,
                   browserPoolLock, task, cacheLock, monitoring, gauges, heap>>
    /\ UNCHANGED <<ForwardCookies, poolVars, cache, now, upstreamCalls, req, key,
                   browser, defers, response, resp, exitPath, released>>

\* handleBrowserError(browser, err) up to its return or, for a crashed page and
\* browser != nil, up to the call h.recoverBrowser(browser)
handleBrowserError(r, b, chain) ==
    /\ pc[r] = "execute"
    /\ IF BrowserErrorCase(chain) = "crashed" /\ b # NilBrowser
       THEN RecoverStep(r, chain, "recover.Pages", NoError)
       ELSE RecoverStep(r, chain, "returned", BrowserErrorResult(chain))

\* recoverBrowser: pages, err := browser.Pages() and the page.Close calls return
RecoverPages(r) ==
    /\ pc[r] = "recover.Pages"
    /\ RecoverStep(r, err[r], "recover.Page", NoError)

\* page, err := browser.Page(about:blank) returns: with an error recoverBrowser
\* returns, and handleBrowserError returns its error
RecoverPage(r) ==
    /\ pc[r] = "recover.Page"
    /\ \/ RecoverStep(r, err[r], "recover.Eval", NoError)
       \/ RecoverStep(r, err[r], "returned", ResultAfterRecovery(err[r], pc[r]))

\* page.Context(ctx).Eval("1+1") returns, with or without an error, page.Close(),
\* recoverBrowser returns, and handleBrowserError returns its error
RecoverEval(r) ==
    /\ pc[r] = "recover.Eval"
    /\ RecoverStep(r, err[r], "returned", ResultAfterRecovery(err[r], pc[r]))

NextRecover ==
    \/ \E r \in Reqs : \E b \in {NilBrowser, browser[r]} :
          \E chain \in BrowserErrorInputs : handleBrowserError(r, b, chain)
    \/ \E r \in Reqs : RecoverPages(r)
    \/ \E r \in Reqs : RecoverPage(r)
    \/ \E r \in Reqs : RecoverEval(r)

SpecRecover == InitRecover /\ [][NextRecover]_vars

\* C28: the error of a crashed page is available to the caller while the recovery
\* is still running (no invocation is inside recoverBrowser with nothing returned),
\* and whatever the recovery does the error returned is NavigationFailed
C28_RecoveryNeverBlocks ==
    \A r \in Reqs :
        /\ pc[r] \in RecoverPositions => returned[r] # NoError
        /\ (pc[r] = "returned" /\ BrowserErrorCase(err[r]) = "crashed") =>
              returned[r] = <<"ErrNavigationFailed">>

----------------------------------------------------------------------------
(* Claims about the order of the last steps of ServeHTTP *)

\* invocation r stores its response in the cache and writes it to w in this step
StoreStep(r) == pc[r] = "store" /\ pc'[r] # "store"

\* C29: a rendered request stores its response in the cache before it releases its
\* session, and it has released its session when it writes the status and the body
\* to the caller
C29_ReleaseBeforeRespond ==
    [][\A r \in Reqs :
          /\ StoreStep(r) => resp'[r] # NoResponse
          /\ (StoreStep(r) /\ cache' # cache) => released'[r] = 0
          /\ (StoreStep(r) /\ resp'[r] # NoResponse) => released[r] = 1
      ]_vars

----------------------------------------------------------------------------
(* The headers of a cache entry: setCachedResponse stores the http.Header it is
   given and getCachedResponse returns the http.Header of the entry, both by
   reference *)

\* the number of values the model lets a header key take
MaxValues == 2


\* the changes a caller makes to an http.Header it holds: Set and Add
HeaderMutations ==
    { [op |-> o, k |-> n, v |-> x] :
        o \in {"Set", "Add"}, n \in {"Content-Type", "X-Extra"}, x \in {"text/plain"} }

\* the header map after one change
Mutated(h, m) == IF m.op = "Set" THEN HeaderSet(h, m.k, m.v) ELSE HeaderAdd(h, m.k, m.v)

\* each invocation holds the responseHeaders it made and filled for a rendered GET,
\* and is about to store or to look up
InitAlias ==
    /\ ForwardCookies = FALSE
    /\ enable_js = "unset"
    /\ EnableJS = TRUE
    /\ OptimizeResources = FALSE
    /\ provisioned = TRUE
    /\ PipelineIdle
    /\ ErrorsIdle
    /\ health = NoHealth
    /\ browserPoolLock = NoHolder
    /\ task = [t \in Tasks |-> "idle"]
    /\ cacheLock = RWMutex({}, NoHolder)
    /\ monitoring = {}
    /\ gauges = Gauges(0, FALSE)
    /\ returned = [r \in Reqs |-> NoError]
    /\ heap = [r \in Reqs |-> HtmlHeaders]
    /\ created = 0
    /\ browserPool = << >>
    /\ browserState = [b \in BrowserIds |-> "none"]
    /\ browserCookies = [b \in BrowserIds |-> {}]
    /\ cache = << >>
    /\ now = 0
    /\ upstreamCalls = 0
    /\ pc \in [Reqs -> {"store", "cacheCheck"}]
    /\ req \in [Reqs -> LockRequestInputs]
    /\ key = [r \in Reqs |-> NoKey]
    /\ browser = [r \in Reqs |-> NilBrowser]
    /\ defers = [r \in Reqs |-> << >>]
    /\ response = [r \in Reqs |-> Response(200, r, PageContent(1))]
    /\ resp = [r \in Reqs |-> NoResponse]
    /\ exitPath = [r \in Reqs |-> ""]
    /\ released = [r \in Reqs |-> 0]

\* a step of invocation r that changes the map, the header maps, its position, its
\* locals and what it wrote
AliasStep(r, c, hp, nextPc, locals, written) ==
    /\ cache' = c
    /\ heap' = hp
    /\ pc' = [pc EXCEPT ![r] = nextPc]
    /\ response' = [response EXCEPT ![r] = locals]
    /\ resp' = [resp EXCEPT ![r] = written]
    /\ UNCHANGED <<cfgVars, pipeVars, errVars, health, browserPoolLock, task, cacheLock,
                   monitoring, gauges, returned>>
    /\ UNCHANGED <<ForwardCookies, poolVars, now, upstreamCalls, req, key, browser,
                   defers, exitPath, released>>

\* h.setCachedResponse(r, responseContent, responseHeaders, responseStatusCode):
\* the entry gets Headers: headers, the map of the caller
StoreHeaders(r) ==
    /\ pc[r] = "store"
    /\ AliasStep(r,
                 setCachedResponse(cache, req[r], response[r].Content,
                                   response[r].Headers, response[r].StatusCode, now),
                 heap, "stored", response[r], resp[r])

\* content, headers, statusCode, found := h.getCachedResponse(r): on a hit the
\* caller holds entry.Headers and copies its values to w
LookupHeaders(r) ==
    /\ pc[r] \in {"cacheCheck", "stored", "found"}
    /\ LET k == getCacheKey(req[r])
       IN IF CacheHit(cache, k, now)
          THEN AliasStep(r, cache, heap, "found",
                         Response(cache[k].StatusCode, cache[k].Headers,
                                  cache[k].Content),
                         Response(cache[k].StatusCode, heap[cache[k].Headers],
                                  cache[k].Content))
          ELSE AliasStep(r, CacheAfterLookup(cache, k, now), heap, pc[r], response[r],
                         resp[r])

\* the caller changes the http.Header it passed to the store or got from a lookup
MutateHeaders(r, m) ==
    /\ pc[r] \in {"stored", "found"}
    /\ LET h == heap[response[r].Headers]
       IN /\ m.k \in DOMAIN h => Len(h[m.k]) < MaxValues \/ m.op = "Set"
          /\ Mutated(h, m) # h
          /\ AliasStep(r, cache, [heap EXCEPT ![response[r].Headers] = Mutated(h, m)],
                       pc[r], response[r], resp[r])

NextAlias ==
    \/ \E r \in Reqs : StoreHeaders(r)
    \/ \E r \in Reqs : LookupHeaders(r)
    \/ \E r \in Reqs : \E m \in HeaderMutations : MutateHeaders(r, m)

SpecAlias == InitAlias /\ [][NextAlias]_vars

\* the headers a lookup of key k returns in cache c with header maps hp
HeadersOfEntry(c, hp, k) == hp[c[k].Headers]

\* C31: a change made by a caller to the header map it passed to a store, or to the
\* header map a lookup returned to it, leaves the headers of every cache entry, as
\* the next lookup returns them, as they were
C31_NoAliasing ==
    [][\A r \in Reqs : \A m \in HeaderMutations :
          MutateHeaders(r, m) =>
             \A k \in DOMAIN cache :
                HeadersOfEntry(cache', heap', k) = HeadersOfEntry(cache, heap, k)
      ]_vars

----------------------------------------------------------------------------
(* The cache key of requests that carry the same cookies in different orders *)

\* the Cookie header lists sid and theme, one of them, or none, in either order
CookieLists ==
    { << >>, <<Cookie("sid", "1")>>, <<Cookie("theme", "dark")>>,
      <<Cookie("sid", "1"), Cookie("theme", "dark")>>,
      <<Cookie("theme", "dark"), Cookie("sid", "1")>> }

\* GET /a with each of the cookie lists
CookieKeyRequests == { Request("GET", "/a", "", NoHeaders, cks) : cks \in CookieLists }

InitCookieKey ==
    /\ ForwardCookies \in BOOLEAN
    /\ enable_js = "unset"
    /\ EnableJS = TRUE
    /\ OptimizeResources = FALSE
    /\ provisioned = TRUE
    /\ PipelineIdle
    /\ ErrorsIdle
    /\ ExtrasIdle
    /\ req \in [Reqs -> CookieKeyRequests]
    /\ key = [r \in Reqs |-> NoKey]
    /\ created = 0
    /\ browserPool = << >>
    /\ browserState = [b \in BrowserIds |-> "none"]
    /\ browserCookies = [b \in BrowserIds |-> {}]
    /\ cache = << >>
    /\ now = 0
    /\ upstreamCalls = 0
    /\ pc = [r \in Reqs |-> "cacheCheck"]
    /\ browser = [r \in Reqs |-> NilBrowser]
    /\ defers = [r \in Reqs |-> << >>]
    /\ response = [r \in Reqs |-> NoResponse]
    /\ resp = [r \in Reqs |-> NoResponse]
    /\ exitPath = [r \in Reqs |-> ""]
    /\ released = [r \in Reqs |-> 0]

NextCookieKey == \E r \in Reqs : ComputeKey(r)

SpecCookieKey == InitCookieKey /\ [][NextCookieKey]_vars

\* the two requests are identical except for their cookies
SameButCookies(a, b) ==
    /\ a.Method = b.Method /\ a.Path = b.Path /\ a.RawQuery = b.RawQuery
    /\ a.Header = b.Header

\* the two requests list the same cookies, in the same order or not
SameCookiesAnyOrder(a, b) ==
    Len(a.Cookies) = Len(b.Cookies) /\ CookieSet(a.Cookies) = CookieSet(b.Cookies)

\* C32: with cookie forwarding enabled two requests that differ only in the order
\* in which they list the same cookies get the same key, and with cookie forwarding
\* disabled two requests that differ only in their cookies get the same key
C32_CookieOrderIrrelevant ==
    \A r1, r2 \in Reqs :
        (key[r1] # NoKey /\ key[r2] # NoKey /\ SameButCookies(req[r1], req[r2])) =>
            /\ (ForwardCookies /\ SameCookiesAnyOrder(req[r1], req[r2])) =>
                  key[r1] = key[r2]
            /\ ~ForwardCookies => key[r1] = key[r2]

----------------------------------------------------------------------------
(* Shutdown: Cleanup while requests are in flight *)

\* every started call returns and every goroutine runs: the invocations of
\* ServeHTTP take their steps, the detached closes run, and a started health pass
\* or Cleanup returns; nothing makes a request arrive or a task start
FairLock ==
    /\ SpecLock
    /\ \A r \in Reqs :
          /\ WF_vars(CacheCheck(r))
          /\ WF_vars(GetPooledBrowser(r))
          /\ WF_vars(CreateBrowserCall(r))
          /\ WF_vars(CreateBrowserReturn(r))
          /\ WF_vars(ExecuteGet(r))
          /\ WF_vars(Store(r))
          /\ WF_vars(ReturnBrowser(r))
    /\ \A b \in BrowserIds : WF_vars(CloseTask(b))
    /\ WF_vars(HealthPassReturn)
    /\ WF_vars(CleanupReturn)

\* Cleanup has returned
CleanupCompleted == task["Cleanup"] = "done"

\* C33: once Cleanup has completed the pool is empty in every later state, and
\* every session that was created is eventually closed, those checked out at the
\* time of the shutdown and released afterwards included
C33_ShutdownFinal ==
    /\ [](CleanupCompleted => browserPool = << >>)
    /\ CleanupCompleted ~> (\A b \in BrowserIds : browserState[b] \in {"none", "closed"})

----------------------------------------------------------------------------
(* The monitor next to requests, health passes and shutdown *)

NextMonitorRequests ==
    \/ \E r \in Reqs : \E rq \in LockRequestInputs : Arrive(r, rq)
    \/ \E r \in Reqs : CacheCheck(r)
    \/ \E r \in Reqs : GetBrowser(r)
    \/ \E r \in Reqs : ExecuteConfigFail(r)
    \/ \E r \in Reqs : RunDefers(r)
    \/ \E b \in BrowserIds : CloseTask(b)
    \/ checkBrowsersHealth
    \/ Cleanup
    \/ collectBrowserMetrics
    \/ \E b \in BrowserIds : collectMetricsFromBrowser(b)

SpecMonitorRequests == Init /\ [][NextMonitorRequests]_vars

\* C34: a session for which a collectMetricsFromBrowser goroutine is running (it
\* was in the snapshot of the pool and its page creation and process-info call are
\* not finished) is not checked out by a request and is neither being closed nor
\* closed, by a release at capacity, a health replacement or Cleanup
C34_MonitorOwnsSessions ==
    \A b \in monitoring :
        /\ ~CheckedOut(b)
        /\ browserState[b] \notin {"closing", "closed"}

----------------------------------------------------------------------------
(* Claims about the number of running sessions *)

\* the sessions that exist and are not closed: in the pool or checked out
LiveSessions ==
    {b \in BrowserIds :
        /\ browserState[b] \notin {"none", "closed"}
        /\ Pooled(b) \/ CheckedOut(b)}

\* C35: at every moment the number of sessions that exist and are not closed,
\* pooled or checked out, is at most MaxBrowsers: no acquire creates a session when
\* MaxBrowsers sessions are live
C35_LiveSessionsBounded == Cardinality(LiveSessions) <= MaxBrowsers

----------------------------------------------------------------------------
(* getHealthStatus next to requests: the pool size is read under the lock, the
   lock is released, and checkBrowsersHealth takes it again *)

\* a step of getHealthStatus: the pool, the browser processes, the position of the
\* query and the report it is building
HealthStep(pool, bstate, n, position, report) ==
    /\ browserPool' = pool
    /\ browserState' = bstate
    /\ created' = n
    /\ task' = [task EXCEPT !["checkBrowsersHealth"] = position]
    /\ health' = report
    /\ UNCHANGED <<cfgVars, pipeVars, errVars, browserPoolLock, cacheLock, lateVars>>
    /\ UNCHANGED <<ForwardCookies, browserCookies, cache, now, upstreamCalls, reqVars>>

\* h.browserPoolLock.Lock(); poolSize := len(h.browserPool); Unlock()
ReadPoolSize ==
    /\ task["checkBrowsersHealth"] = "idle"
    /\ HealthStep(browserPool, browserState, created, "poolSizeRead",
                  HealthStatus("", Len(browserPool), 0, 0, now, 0))

\* healthyCount, unhealthyCount := h.checkBrowsersHealth(), the overall status, and
\* the HealthStatus returned with the poolSize read before
ReturnHealthStatus ==
    /\ task["checkBrowsersHealth"] = "poolSizeRead"
    /\ \E probe \in [1 .. Len(browserPool) -> BOOLEAN],
          launch \in [1 .. Len(browserPool) -> BOOLEAN] :
          LET st == HealthPass(1, [pool |-> browserPool, bstate |-> browserState,
                                   created |-> created, healthy |-> 0,
                                   unhealthy |-> 0],
                               probe, launch)
              status == OverallStatus(st.healthy, st.unhealthy)
          IN HealthStep(st.pool, st.bstate, st.created, "idle",
                        HealthStatus(status, health.Size, st.healthy, st.unhealthy,
                                     now, HealthCode(status)))

NextHealthRequests ==
    \/ \E r \in Reqs : \E rq \in LockRequestInputs : Arrive(r, rq)
    \/ \E r \in Reqs : CacheCheck(r)
    \/ \E r \in Reqs : GetBrowser(r)
    \/ \E r \in Reqs : ExecuteConfigFail(r)
    \/ \E r \in Reqs : RunDefers(r)
    \/ \E b \in BrowserIds : CloseTask(b)
    \/ ReadPoolSize
    \/ ReturnHealthStatus

SpecHealthRequests == Init /\ [][NextHealthRequests]_vars

\* getHealthStatus has returned the report held in health
Reported == health.Status # ""

\* C36: in every HealthStatus that getHealthStatus returns, healthy_count plus
\* unhealthy_count equals the pool size it reports, whatever acquires and releases
\* run next to the query
C36_ReportConsistent ==
    Reported => health.HealthyCount + health.UnhealthyCount = health.Size

----------------------------------------------------------------------------
(* Cookie forwarding: ServeHTTP with forward_cookies enabled *)

\* GET /a without cookies, with sid=1 and with theme=dark
CookieRequestInputs ==
    { Request("GET", "/a", "", NoHeaders, cks) :
        cks \in {<< >>, <<Cookie("sid", "1")>>, <<Cookie("theme", "dark")>>} }

\* the module provisioned with forward_cookies enabled
InitCookies ==
    /\ ForwardCookies = TRUE
    /\ enable_js = "unset"
    /\ EnableJS = TRUE
    /\ OptimizeResources = FALSE
    /\ provisioned = TRUE
    /\ PipelineIdle
    /\ ErrorsIdle
    /\ ExtrasIdle
    /\ \/ /\ created = 1
          /\ browserPool = <<1>>
          /\ browserState = [b \in BrowserIds |-> IF b = 1 THEN "open" ELSE "none"]
       \/ /\ created = 0
          /\ browserPool = <<>>
          /\ browserState = [b \in BrowserIds |-> "none"]
    /\ browserCookies = [b \in BrowserIds |-> {}]
    /\ cache = << >>
    /\ now = 0
    /\ upstreamCalls = 0
    /\ pc = [r \in Reqs |-> "idle"]
    /\ req = [r \in Reqs |-> NoRequest]
    /\ key = [r \in Reqs |-> NoKey]
    /\ browser = [r \in Reqs |-> NilBrowser]
    /\ defers = [r \in Reqs |-> << >>]
    /\ response = [r \in Reqs |-> NoResponse]
    /\ resp = [r \in Reqs |-> NoResponse]
    /\ exitPath = [r \in Reqs |-> ""]
    /\ released = [r \in Reqs |-> 0]

NextCookies ==
    \/ \E r \in Reqs : \E rq \in CookieRequestInputs : Arrive(r, rq)
    \/ \E r \in Reqs : CacheCheck(r)
    \/ \E r \in Reqs : GetBrowser(r)
    \/ \E r \in Reqs : ExecuteConfigFail(r)
    \/ \E r \in Reqs : ExecuteGet(r)
    \/ \E r \in Reqs : Store(r)
    \/ \E r \in Reqs : RunDefers(r)
    \/ \E b \in BrowserIds : CloseTask(b)
    \/ Tick

SpecCookies == InitCookies /\ [][NextCookies]_vars

\* the values of the Set-Cookie header of a header map
SetCookieValues(h) ==
    IF "Set-Cookie" \in DOMAIN h
    THEN {h["Set-Cookie"][i] : i \in 1 .. Len(h["Set-Cookie"])}
    ELSE {}

\* the Set-Cookie values that come from the cookies a request carries itself (the
\* upstream of the model sets no cookie)
OwnCookieValues(rq) == {c.Name \o "=" \o c.Value : c \in CookieSet(rq.Cookies)}

\* C37: with cookie forwarding enabled, the Set-Cookie headers written for a
\* rendered request come from that request's own cookies only, never from the
\* cookies an earlier request left in the session it reuses
C37_CookiesIsolated ==
    \A r \in Reqs :
        Rendered(r) => SetCookieValues(resp[r].Headers) \subseteq OwnCookieValues(req[r])

\* C38: with cookie forwarding and caching enabled, no cache entry holds a
\* Set-Cookie header made from the cookies of the session that rendered it, and no
\* response served from the cache carries one
C38_NoSessionCookiesInCache ==
    /\ \A k \in DOMAIN cache : SetCookieValues(cache[k].Headers) = {}
    /\ \A r \in Reqs :
          exitPath[r] = "cacheHit" => SetCookieValues(resp[r].Headers) = {}

----------------------------------------------------------------------------
(* Claims about the response of a rendered GET *)

\* C39: every GET that was not served from the cache and has written its response
\* has written status 200, a status that is eligible for caching, and the
\* Content-Type text/html; charset=utf-8, whatever status the upstream answered the
\* navigation with
C39_RenderedGetIs200 ==
    \A r \in Reqs :
        (req[r].Method = "GET" /\ Rendered(r)) =>
            /\ resp[r].StatusCode = 200
            /\ resp[r].StatusCode >= 200 /\ resp[r].StatusCode < 300
            /\ "Content-Type" \in DOMAIN resp[r].Headers
            /\ resp[r].Headers["Content-Type"] = <<"text/html; charset=utf-8">>

\* C39 witness: a GET that found no entry was rendered and has returned after
\* writing 200 with the document and the html content type, and its response is in
\* the cache
C39_Witness ==
    \E r \in Reqs :
        /\ req[r].Method = "GET"
        /\ pc[r] = "done" /\ exitPath[r] = "success"
        /\ resp[r] = RenderedResponse(200, PageContent(1))
        /\ upstreamCalls = 1
        /\ getCacheKey(req[r]) \in DOMAIN cache
        /\ cache[getCacheKey(req[r])].StatusCode = 200

----------------------------------------------------------------------------
(* Claims about the bytes written to the hasher *)

\* the bytes the key of a request was hashed from
PreHashInput(k) == k[2]

\* C40: two requests that differ in method, path, query, the value of a forwarded
\* header or (when cookies are forwarded) a cookie are hashed from different byte
\* strings: requests share a key only through a collision of the hash
C40_ComponentsSeparated ==
    \A r1, r2 \in Reqs :
        (key[r1] # NoKey /\ key[r2] # NoKey /\ ~SameKeyInputs(req[r1], req[r2])) =>
            PreHashInput(key[r1]) # PreHashInput(key[r2])

====
